---- MODULE Spec2Model ----
(***************************************************************************)
(* A model of redis-rust: the store with lazy expiry (src/src/store.rs),   *)
(* the GET / SET / RPUSH / PING / ECHO commands and their registry         *)
(* (src/src/commands.rs, src/src/commands/*.rs), the per-connection loop   *)
(* (src/src/handler.rs) and the RESP codec (src/src/resp.rs).              *)
(*                                                                         *)
(* Text at the command level is a TLA+ string (an atomic token); the codec *)
(* part works on byte sequences (sequences of one-character strings).      *)
(* An Option<T> is a sequence of length at most one: <<>> is None and      *)
(* <<x>> is Some(x).                                                       *)
(***************************************************************************)
EXTENDS Integers, Sequences, FiniteSets, TLC

VARIABLES
    store,      \* Store.store: the HashMap<String, Entry>, a function on the keys present
    now,        \* the monotonic clock, tokio::time::Instant::now(), in milliseconds
    holders,    \* the connection tasks that hold the MutexGuard of the SharedStore
    pc,         \* per connection: where its task is in RespHandler::run
    req,        \* per connection: the request message decoded by read_stream
    parsed,     \* per connection: what the command's option parser returned
    reply,      \* per connection: the response the command produced, an Option
    obs,        \* per connection: what the Store call of the command saw and returned
    decodedN,   \* per connection: number of requests decoded so far
    writtenN,   \* per connection: number of responses completely written so far
    codec,      \* the codec harness: a value, its wire bytes and the parse of them
    rx,         \* per connection: the bytes of the last socket read taken as bytes, an Option
    handler_buffer  \* per connection: RespHandler.buffer, the bytes read and not yet parsed

vars == <<store, now, holders, pc, req, parsed, reply, obs, decodedN, writtenN, codec, rx, handler_buffer>>

(***************************************************************************)
(* Bounds of the model.                                                    *)
(***************************************************************************)
MaxTime == 3
MaxReqs == 3
MaxSharedReqs == 2
MaxFairReqs == 2

Conns == {"c1", "c2"}
Keys == {"k1", "k2"}
Values == {"a", "b"}

None == <<>>
Some(x) == <<x>>

(***************************************************************************)
(* resp.rs: the protocol value, enum RespType.                             *)
(***************************************************************************)
SimpleString(s) == [t |-> "SimpleString", s |-> s]
SimpleError(s) == [t |-> "SimpleError", s |-> s]
BulkString(o) == [t |-> "BulkString", o |-> o]
BulkError(s) == [t |-> "BulkError", s |-> s]
Integer(n) == [t |-> "Integer", n |-> n]
Array(a) == [t |-> "Array", a |-> a]
Null == [t |-> "Null"]

Ok(v) == [ok |-> TRUE, v |-> v]
Err(e) == [ok |-> FALSE, e |-> e]

\* resp.rs extract_string: the text of a bulk string that is present, or of a simple string.
extract_string(message) ==
    IF message.t = "BulkString" /\ message.o # None THEN Ok(message.o[1])
    ELSE IF message.t = "SimpleString" THEN Ok(message.s)
    ELSE Err("Cannot unpack")

(***************************************************************************)
(* store.rs: Entry, EntryValue and Store.                                  *)
(***************************************************************************)
EntryString(s) == [t |-> "String", s |-> s]
EntryList(l) == [t |-> "List", l |-> l]

new_string(value) == [value |-> EntryString(value), deletion_time |-> None]
new_list == [value |-> EntryList(<<>>), deletion_time |-> None]
\* A faulty variant of with_deletion: the duration is stored as if it were the deadline.
with_deletion_duration_only(entry, duration_ms, t) ==
    [entry EXCEPT !.deletion_time = Some(duration_ms)]

\* Entry::with_deletion reads the clock itself: deletion_time = now + duration.
\* A faulty variant of with_deletion: a duration of zero sets no deletion time.
with_deletion_zero_persists(entry, duration_ms, t) ==
    IF duration_ms = 0 THEN entry ELSE [entry EXCEPT !.deletion_time = Some(t + duration_ms)]

with_deletion(entry, duration_ms, t) == [entry EXCEPT !.deletion_time = Some(t + duration_ms)]

\* HashMap::remove and HashMap::insert on the map.
map_remove(st, key) == [k \in DOMAIN st \ {key} |-> st[k]]
map_insert(st, key, e) == [k \in DOMAIN st \cup {key} |-> IF k = key THEN e ELSE st[k]]
map_get(st, key) == IF key \in DOMAIN st THEN Some(st[key]) ELSE None

\* A faulty variant of is_expired: the comparison is strict, an entry lives through its deadline.
is_expired_strict(e, t) == e.deletion_time # None /\ e.deletion_time[1] < t

\* The comparison of remove_if_expired: deletion_time <= Instant::now().
is_expired(e, t) == e.deletion_time # None /\ e.deletion_time[1] <= t

\* A faulty variant of remove_if_expired: nothing is ever removed.
remove_if_expired_never(st, key, t) == st

\* A faulty variant of remove_if_expired: every expired entry is removed, whatever its key.
remove_if_expired_sweeping(st, key, t) ==
    [k \in {x \in DOMAIN st : ~is_expired(st[x], t)} |-> st[k]]

remove_if_expired(st, key, t) ==
    IF key \in DOMAIN st /\ is_expired(st[key], t) THEN map_remove(st, key) ELSE st

\* Store::entry: the slot of the key after eviction: occupied (Some) or vacant (None).
\* A faulty variant of store_entry: the slot of the key is handed out without the
\* expiry check.
store_entry_unevicted(st, key, t) == [store |-> st, ret |-> map_get(st, key)]

store_entry(st, key, t) ==
    LET s1 == remove_if_expired(st, key, t)
    IN  [store |-> s1, ret |-> map_get(s1, key)]

\* A faulty variant of store_insert: HashMap::insert alone, without the eviction before it.
store_insert_unevicted(st, key, e, t) ==
    [store |-> map_insert(st, key, e), ret |-> map_get(st, key)]

\* A faulty variant of store_insert: entry(key).or_insert(e), which keeps an entry that is present.
store_insert_or_keep(st, key, e, t) ==
    LET s1 == remove_if_expired(st, key, t)
    IN  [store |-> IF key \in DOMAIN s1 THEN s1 ELSE map_insert(s1, key, e),
         ret |-> map_get(s1, key)]

\* Store::insert: returns what HashMap::insert returns, the entry it replaced.
store_insert(st, key, e, t) ==
    LET s1 == remove_if_expired(st, key, t)
    IN  [store |-> map_insert(s1, key, e), ret |-> map_get(s1, key)]

\* Store::get.
store_get(st, key, t) ==
    LET s1 == remove_if_expired(st, key, t)
    IN  [store |-> s1, ret |-> map_get(s1, key)]

(***************************************************************************)
(* Conversions of text tokens.  Text is atomic here, so a conversion is    *)
(* given by cases on the tokens the model's requests are built from.       *)
(***************************************************************************)
\* str::to_lowercase: the tokens below are the ones of the model that hold an upper-case letter.
to_lowercase(s) ==
    CASE s \in {"PX", "Px", "pX"} -> "px"
      [] s = "EX" -> "ex"
      [] s \in {"GET", "Get"} -> "get"
      [] s \in {"SET", "Set"} -> "set"
      [] s \in {"RPUSH", "Rpush"} -> "rpush"
      [] s \in {"PING", "Ping"} -> "ping"
      [] s \in {"ECHO", "Echo"} -> "echo"
      [] s = "FOO" -> "foo"
      [] OTHER -> s

\* str::to_uppercase on the tokens used as command names.
to_uppercase(s) ==
    CASE s \in {"get", "Get"} -> "GET"
      [] s \in {"set", "Set"} -> "SET"
      [] s \in {"rpush", "Rpush"} -> "RPUSH"
      [] s \in {"ping", "Ping"} -> "PING"
      [] s \in {"echo", "Echo"} -> "ECHO"
      [] s = "foo" -> "FOO"
      [] OTHER -> s

\* The decimal tokens of the model, DecimalText[i] being the text of i - 1.
DecimalText == <<"0", "1", "2", "3">>
\* str::parse::<u64>: the number a decimal token denotes, an error for any other token.
parse_u64(s) ==
    IF \E i \in 1..Len(DecimalText) : DecimalText[i] = s
    THEN Ok((CHOOSE i \in 1..Len(DecimalText) : DecimalText[i] = s) - 1)
    ELSE Err("invalid digit found in string")

(***************************************************************************)
(* commands/get.rs, commands/set.rs, commands/rpush.rs: option parsing.    *)
(* An Err carries the text that Display prints for the anyhow error (the   *)
(* outermost context).                                                     *)
(***************************************************************************)
\* A faulty variant of parse_get_options: anything but exactly one argument is an error.
parse_get_options_exactly_one(args) ==
    IF Len(args) = 0 THEN Err("Missing key")
    ELSE IF Len(args) > 1 THEN Err("Wrong number of arguments")
    ELSE LET k == extract_string(args[1])
         IN  IF k.ok THEN Ok(k.v) ELSE Err("Failed to extract key")

parse_get_options(args) ==
    IF Len(args) = 0 THEN Err("Missing key")
    ELSE LET k == extract_string(args[1])
         IN  IF k.ok THEN Ok(k.v) ELSE Err("Failed to extract key")

\* A faulty variant of set_options_loop: once the entry has a deletion time, a later
\* PX pair is validated but no longer applied.
RECURSIVE set_options_loop_first_wins(_, _, _, _)
set_options_loop_first_wins(args, i, entry, t) ==
    IF i > Len(args) THEN Ok(entry)
    ELSE LET option == extract_string(args[i])
         IN  IF ~option.ok THEN Err("Failed to extract option")
             ELSE IF to_lowercase(option.v) = "px"
             THEN IF i + 1 > Len(args) THEN Err("Missing milliseconds for PX option")
                  ELSE LET text == extract_string(args[i + 1])
                       IN  IF ~text.ok THEN Err("Failed to extract duration string")
                           ELSE LET duration == parse_u64(text.v)
                                IN  IF ~duration.ok
                                    THEN Err("Failed to convert PX duration string to a number")
                                    ELSE set_options_loop_first_wins(args, i + 2,
                                             IF entry.deletion_time = None
                                             THEN with_deletion(entry, duration.v, t)
                                             ELSE entry, t)
             ELSE Err(option.v \o " is not a valid option")

\* The while loop of parse_set_options over the tokens from position i on.
RECURSIVE set_options_loop(_, _, _, _)
set_options_loop(args, i, entry, t) ==
    IF i > Len(args) THEN Ok(entry)
    ELSE LET option == extract_string(args[i])
         IN  IF ~option.ok THEN Err("Failed to extract option")
             ELSE IF to_lowercase(option.v) = "px"
             THEN IF i + 1 > Len(args) THEN Err("Missing milliseconds for PX option")
                  ELSE LET text == extract_string(args[i + 1])
                       IN  IF ~text.ok THEN Err("Failed to extract duration string")
                           ELSE LET duration == parse_u64(text.v)
                                IN  IF ~duration.ok
                                    THEN Err("Failed to convert PX duration string to a number")
                                    ELSE set_options_loop(args, i + 2,
                                             with_deletion(entry, duration.v, t), t)
             ELSE Err(option.v \o " is not a valid option")

parse_set_options(args, t) ==
    IF Len(args) = 0 THEN Err("Missing key")
    ELSE LET k == extract_string(args[1])
         IN  IF ~k.ok THEN Err("Failed to extract key")
             ELSE IF Len(args) < 2 THEN Err("Missing value")
             ELSE LET v == extract_string(args[2])
                  IN  IF ~v.ok THEN Err("Failed to extract value")
                      ELSE LET e == set_options_loop(args, 3, new_string(v.v), t)
                           IN  IF e.ok THEN Ok([key |-> k.v, entry |-> e.v]) ELSE e

\* A faulty variant of rpush_values_loop: the values before a non-text one are kept.
RECURSIVE rpush_values_loop_keeping_prefix(_, _, _)
rpush_values_loop_keeping_prefix(args, i, result) ==
    IF i > Len(args) THEN Ok(result)
    ELSE LET v == extract_string(args[i])
         IN  IF ~v.ok THEN Ok(result)
             ELSE rpush_values_loop_keeping_prefix(args, i + 1, Append(result, v.v))

\* The while loop of rpush.rs parse_options over the tokens from position i on.
RECURSIVE rpush_values_loop(_, _, _)
rpush_values_loop(args, i, result) ==
    IF i > Len(args) THEN Ok(result)
    ELSE LET v == extract_string(args[i])
         IN  IF ~v.ok THEN Err("Failed to extract value")
             ELSE rpush_values_loop(args, i + 1, Append(result, v.v))

parse_options(args) ==
    IF Len(args) = 0 THEN Err("Missing key")
    ELSE LET k == extract_string(args[1])
         IN  IF ~k.ok THEN Err("Failed to extract key")
             ELSE LET r == rpush_values_loop(args, 2, <<>>)
                  IN  IF ~r.ok THEN r
                      ELSE IF r.v = <<>> THEN Err("At least one value must be provided")
                      ELSE Ok([key |-> k.v, values |-> r.v])

(***************************************************************************)
(* The commands.  Each handle runs in two parts: the part before           *)
(* store.lock().await (option parsing; an error reply ends the command     *)
(* there) and the part that runs with the MutexGuard held.                 *)
(***************************************************************************)
\* A command that is finished without the store, with its reply.
Done(r) == [done |-> TRUE, reply |-> r]
\* A command that goes on to lock the store.
Pending(cmd, key, entry, values) ==
    [done |-> FALSE, cmd |-> cmd, key |-> key, entry |-> entry, values |-> values]

Ping_handle(args) == Done(SimpleString("PONG"))

\* A faulty variant of Echo_handle: the reply is the first argument itself.
Echo_handle_argument_itself(args) ==
    IF Len(args) > 0 THEN Done(args[1]) ELSE Done(BulkString(None))

Echo_handle(args) ==
    IF Len(args) > 0
    THEN LET m == extract_string(args[1])
         IN  Done(BulkString(IF m.ok THEN Some(m.v) ELSE None))
    ELSE Done(BulkString(None))

Get_begin(args) ==
    LET r == parse_get_options(args)
    IN  IF r.ok THEN Pending("GET", r.v, None, <<>>)
        ELSE Done(BulkError("ERR " \o r.e \o " for 'GET' command"))

Set_begin(args, t) ==
    LET r == parse_set_options(args, t)
    IN  IF r.ok THEN Pending("SET", r.v.key, Some(r.v.entry), <<>>)
        ELSE Done(BulkError("ERR " \o r.e \o " for 'SET' command"))

Rpush_begin(args) ==
    LET r == parse_options(args)
    IN  IF r.ok THEN Pending("RPUSH", r.v.key, None, r.v.values)
        ELSE Done(BulkError("ERR " \o r.e \o " for 'RPUSH' command"))

\* A faulty variant of Get_locked: an entry of the wrong type is removed from the map.
Get_locked_evicting(st, key, t) ==
    LET r == store_get(st, key, t)
    IN  [store |-> IF r.ret # None /\ r.ret[1].value.t # "String"
                   THEN map_remove(r.store, key) ELSE r.store,
         ret |-> r.ret,
         reply |-> IF r.ret = None THEN Null
                   ELSE IF r.ret[1].value.t = "String"
                        THEN BulkString(Some(r.ret[1].value.s))
                        ELSE BulkError("WRONGTYPE stored type is not a string")]

\* A faulty variant of Get_locked: a miss is answered with the absent bulk string.
Get_locked_absent_bulk(st, key, t) ==
    LET r == store_get(st, key, t)
    IN  [store |-> r.store, ret |-> r.ret,
         reply |-> IF r.ret = None THEN BulkString(None)
                   ELSE IF r.ret[1].value.t = "String"
                        THEN BulkString(Some(r.ret[1].value.s))
                        ELSE BulkError("WRONGTYPE stored type is not a string")]

\* Get::handle with the guard held: store.get and the match on the entry's value.
Get_locked(st, key, t) ==
    LET r == store_get(st, key, t)
    IN  [store |-> r.store, ret |-> r.ret,
         reply |-> IF r.ret = None THEN Null
                   ELSE IF r.ret[1].value.t = "String"
                        THEN BulkString(Some(r.ret[1].value.s))
                        ELSE BulkError("WRONGTYPE stored type is not a string")]

\* A faulty variant of Set_locked: OK is returned and the entry is not in the map yet.
Set_locked_deferred(st, key, entry, t) ==
    [store |-> st, ret |-> None, reply |-> SimpleString("OK")]

\* Set::handle with the guard held: store.insert, whose return value is dropped.
Set_locked(st, key, entry, t) ==
    LET r == store_insert(st, key, entry, t)
    IN  [store |-> r.store, ret |-> r.ret, reply |-> SimpleString("OK")]

\* A faulty variant of Rpush_locked: an entry that is not a List is replaced by a new List.
Rpush_locked_replacing(st, key, values, t) ==
    LET r == store_entry(st, key, t)
        s1 == IF r.ret = None \/ r.ret[1].value.t # "List"
              THEN map_insert(r.store, key, new_list) ELSE r.store
        e == s1[key]
        list == e.value.l \o values
    IN  [store |-> map_insert(s1, key, [e EXCEPT !.value = EntryList(list)]),
         ret |-> r.ret, reply |-> Integer(Len(list))]

\* A faulty variant of Rpush_locked: the values are put at the head of the list.
Rpush_locked_prepending(st, key, values, t) ==
    LET r == store_entry(st, key, t)
        s1 == IF r.ret = None THEN map_insert(r.store, key, new_list) ELSE r.store
        e == s1[key]
    IN  IF e.value.t = "List"
        THEN LET list == values \o e.value.l
             IN  [store |-> map_insert(s1, key, [e EXCEPT !.value = EntryList(list)]),
                  ret |-> r.ret, reply |-> Integer(Len(list))]
        ELSE [store |-> s1, ret |-> r.ret,
              reply |-> BulkError("WRONGTYPE Entry at key " \o key \o " is not a list")]

\* Rpush::handle with the guard held: entry(key).or_insert(new_list), then the match.
\* A faulty variant of Rpush_locked: the appended list is stored as a fresh entry, so
\* the deletion time of the entry is cleared.
Rpush_locked_persisting(st, key, values, t) ==
    LET r == store_entry(st, key, t)
        s1 == IF r.ret = None THEN map_insert(r.store, key, new_list) ELSE r.store
        e == s1[key]
    IN  IF e.value.t = "List"
        THEN LET list == e.value.l \o values
             IN  [store |-> map_insert(s1, key, [new_list EXCEPT !.value = EntryList(list)]),
                  ret |-> r.ret, reply |-> Integer(Len(list))]
        ELSE [store |-> s1, ret |-> r.ret,
              reply |-> BulkError("WRONGTYPE Entry at key " \o key \o " is not a list")]

Rpush_locked(st, key, values, t) ==
    LET r == store_entry(st, key, t)
        s1 == IF r.ret = None THEN map_insert(r.store, key, new_list) ELSE r.store
        e == s1[key]
    IN  IF e.value.t = "List"
        THEN LET list == e.value.l \o values
             IN  [store |-> map_insert(s1, key, [e EXCEPT !.value = EntryList(list)]),
                  ret |-> r.ret, reply |-> Integer(Len(list))]
        ELSE [store |-> s1, ret |-> r.ret,
              reply |-> BulkError("WRONGTYPE Entry at key " \o key \o " is not a list")]

\* The part of a pending command that runs under the lock.
command_locked(p, st, t) ==
    CASE p.cmd = "GET" -> Get_locked(st, p.key, t)
      [] p.cmd = "SET" -> Set_locked(st, p.key, p.entry[1], t)
      [] p.cmd = "RPUSH" -> Rpush_locked(st, p.key, p.values, t)

(***************************************************************************)
(* commands.rs: the registry.  Register::register stores each command      *)
(* under the upper-cased name; Register::handle looks the upper-cased      *)
(* name up.                                                                *)
(***************************************************************************)
\* Register::register: the command is stored under its upper-cased name.
Register_register(registry, name) == registry \cup {to_uppercase(name)}

RECURSIVE register_multiple(_, _)
register_multiple(registry, names) ==
    IF names = <<>> THEN registry
    ELSE register_multiple(Register_register(registry, Head(names)), Tail(names))

\* The keys of the registry once the five commands are registered under their names.
Registered == register_multiple({}, <<"PING", "ECHO", "GET", "SET", "RPUSH">>)

\* A faulty variant of Register::handle: the error names the upper-cased command.
Register_handle_naming_uppercased(command, args, t) ==
    LET name == to_uppercase(command)
    IN  CASE name = "PING" -> Ping_handle(args)
          [] name = "ECHO" -> Echo_handle(args)
          [] name = "GET" -> Get_begin(args)
          [] name = "SET" -> Set_begin(args, t)
          [] name = "RPUSH" -> Rpush_begin(args)
          [] OTHER -> Done(SimpleError("ERR Command (" \o name \o ") is not valid"))

\* A faulty variant of Register::handle: the name is looked up as the caller gave it.
Register_handle_exact_name(command, args, t) ==
    LET name == command
    IN  IF name \notin Registered
        THEN Done(SimpleError("ERR Command (" \o command \o ") is not valid"))
        ELSE CASE name = "PING" -> Ping_handle(args)
               [] name = "ECHO" -> Echo_handle(args)
               [] name = "GET" -> Get_begin(args)
               [] name = "SET" -> Set_begin(args, t)
               [] name = "RPUSH" -> Rpush_begin(args)

Register_handle(command, args, t) ==
    LET name == to_uppercase(command)
    IN  IF name \notin Registered
        THEN Done(SimpleError("ERR Command (" \o command \o ") is not valid"))
        ELSE CASE name = "PING" -> Ping_handle(args)
               [] name = "ECHO" -> Echo_handle(args)
               [] name = "GET" -> Get_begin(args)
               [] name = "SET" -> Set_begin(args, t)
               [] name = "RPUSH" -> Rpush_begin(args)

\* A faulty variant of extract_command: a message that is text by itself is taken as a
\* command without arguments.
extract_command_accepting_text(message) ==
    IF message.t # "Array"
    THEN LET h == extract_string(message)
         IN  IF h.ok THEN [ok |-> TRUE, command |-> h.v, args |-> <<>>]
             ELSE [ok |-> FALSE, panic |-> FALSE]
    ELSE IF message.a = <<>> THEN [ok |-> FALSE, panic |-> TRUE]
    ELSE LET h == extract_string(message.a[1])
         IN  IF ~h.ok THEN [ok |-> FALSE, panic |-> TRUE]
             ELSE [ok |-> TRUE, command |-> h.v, args |-> Tail(message.a)]

\* resp.rs extract_command: Ok for an Array whose head is text; vec[0] and unwrap()
\* panic on an empty Array and on a head that is not text.
extract_command(message) ==
    IF message.t # "Array" THEN [ok |-> FALSE, panic |-> FALSE]
    ELSE IF message.a = <<>> THEN [ok |-> FALSE, panic |-> TRUE]
    ELSE LET h == extract_string(message.a[1])
         IN  IF ~h.ok THEN [ok |-> FALSE, panic |-> TRUE]
             ELSE [ok |-> TRUE, command |-> h.v, args |-> Tail(message.a)]

(***************************************************************************)
(* The requests a client sends: an Array of bulk strings, and a few        *)
(* messages that are not such an Array.                                    *)
(***************************************************************************)
Request(tokens) == Array([i \in 1..Len(tokens) |-> BulkString(Some(tokens[i]))])

\* The requests of the one-connection specification.
Requests ==
    {Request(<<"GET", k>>) : k \in Keys}
    \cup {Request(<<"SET", k, v>>) : k \in Keys, v \in Values}
    \cup {Request(<<"SET", k, "a", "PX", d>>) : k \in Keys, d \in {"0", "1", "2"}}
    \cup {Request(<<"RPUSH", k, "a">>) : k \in Keys}
    \cup {Request(<<"RPUSH", k, "b", "a">>) : k \in Keys}
    \cup {Request(<<"GET">>), Request(<<"SET", "k1">>), Request(<<"SET", "k1", "a", "EX", "1">>),
          Request(<<"SET", "k1", "a", "PX", "x">>), Request(<<"RPUSH", "k1">>),
          Array(<<BulkString(Some("RPUSH")), BulkString(Some("k1")), BulkString(Some("a")), Null>>),
          Request(<<"PING">>), Request(<<"ECHO", "a">>), Request(<<"FOO">>),
          SimpleString("PING"), Array(<<>>)}
    \cup {Request(<<"get", "k1">>), Request(<<"Set", "k1", "b">>),
          Request(<<"rpush", "k1", "a">>), Request(<<"Ping">>), Request(<<"echo", "a">>),
          Request(<<"foo", "k1">>), Request(<<"GET", "k1", "k2">>),
          Request(<<"SET", "k1", "a", "PX">>),
          Array(<<BulkString(Some("GET")), Null>>),
          Array(<<BulkString(Some("SET")), BulkString(Some("k1")), Integer(1)>>)}
    \cup {Request(<<"ECHO">>), Request(<<"ECHO", "k1", "b">>),
          Array(<<BulkString(Some("ECHO")), SimpleString("a")>>),
          Array(<<BulkString(Some("ECHO")), Integer(1)>>),
          Array(<<BulkString(Some("echo")), Array(<<BulkString(Some("a"))>>)>>),
          Array(<<BulkString(Some("ECHO")), BulkString(None)>>),
          Request(<<"PING", "k1">>),
          Array(<<BulkString(Some("ping")), Integer(1)>>)}

\* The requests of the two-connection specification, all on one key.
SharedRequests ==
    {Request(<<"GET", "k1">>), Request(<<"SET", "k1", "a">>),
     Request(<<"SET", "k1", "b", "PX", "1">>), Request(<<"RPUSH", "k1", "a", "b">>),
     Request(<<"PING">>), Request(<<"GET">>)}

(***************************************************************************)
(* resp.rs: the codec, on byte sequences.  A byte is a one-character       *)
(* string; the bytes of the model are ASCII, so the byte length of a text  *)
(* is its length.                                                          *)
(***************************************************************************)
CR == "\r"
LF == "\n"
DigitChars == <<"0", "1", "2", "3", "4", "5", "6", "7", "8", "9">>
IsDigit(ch) == \E i \in 1..10 : DigitChars[i] = ch
DigitValue(ch) == (CHOOSE i \in 1..10 : DigitChars[i] = ch) - 1

\* The decimal text of a natural number, as format! writes it.
RECURSIVE format_decimal(_)
format_decimal(n) ==
    IF n < 10 THEN <<DigitChars[n + 1]>>
    ELSE format_decimal(n \div 10) \o <<DigitChars[(n % 10) + 1]>>

\* Display of an i64: a minus sign for a negative number, no sign otherwise.
format_i64(n) == IF n < 0 THEN <<"-">> \o format_decimal(0 - n) ELSE format_decimal(n)

\* The magnitudes of i64::MAX and i64::MIN, as decimal text.
I64MaxText == <<"9","2","2","3","3","7","2","0","3","6","8","5","4","7","7","5","8","0","7">>
I64MinText == <<"9","2","2","3","3","7","2","0","3","6","8","5","4","7","7","5","8","0","8">>

RECURSIVE strip_zeros(_)
strip_zeros(digits) ==
    IF Len(digits) > 1 /\ digits[1] = "0" THEN strip_zeros(Tail(digits)) ELSE digits

\* a > b for two decimal texts of the same length.
RECURSIVE text_greater(_, _)
text_greater(a, b) ==
    IF a = <<>> THEN FALSE
    ELSE IF DigitValue(a[1]) # DigitValue(b[1]) THEN DigitValue(a[1]) > DigitValue(b[1])
    ELSE text_greater(Tail(a), Tail(b))

\* Whether the magnitude written by the digits is beyond the limit.
exceeds(digits, limit) ==
    LET m == strip_zeros(digits)
    IN  Len(m) > Len(limit) \/ (Len(m) = Len(limit) /\ text_greater(m, limit))

RECURSIVE digits_value(_, _)
digits_value(digits, acc) ==
    IF digits = <<>> THEN acc
    ELSE digits_value(Tail(digits), acc * 10 + DigitValue(digits[1]))

\* A faulty variant of parse_num: a magnitude outside i64 is not refused, and the value
\* returned for it is the one of its last digit.
parse_num_unbounded(buffer) ==
    IF buffer = <<>> THEN Err("cannot parse integer from empty string")
    ELSE LET signed == buffer[1] \in {"+", "-"} /\ Len(buffer) > 1
             negative == signed /\ buffer[1] = "-"
             digits == IF signed THEN Tail(buffer) ELSE buffer
             kept == IF exceeds(digits, I64MaxText) THEN <<digits[Len(digits)]>> ELSE digits
         IN  IF \E i \in 1..Len(digits) : ~IsDigit(digits[i])
             THEN Err("invalid digit found in string")
             ELSE Ok(IF negative THEN 0 - digits_value(kept, 0) ELSE digits_value(kept, 0))

\* parse_num: str::parse::<i64>: an optional sign, then digits only; an empty text, a
\* sign alone, a character that is no digit and a magnitude outside i64 are errors.
parse_num(buffer) ==
    IF buffer = <<>> THEN Err("cannot parse integer from empty string")
    ELSE LET signed == buffer[1] \in {"+", "-"} /\ Len(buffer) > 1
             negative == signed /\ buffer[1] = "-"
             digits == IF signed THEN Tail(buffer) ELSE buffer
         IN  IF \E i \in 1..Len(digits) : ~IsDigit(digits[i])
             THEN Err("invalid digit found in string")
             ELSE IF ~negative /\ exceeds(digits, I64MaxText)
             THEN Err("number too large to fit in target type")
             ELSE IF negative /\ exceeds(digits, I64MinText)
             THEN Err("number too small to fit in target type")
             ELSE Ok(IF negative THEN 0 - digits_value(digits, 0) ELSE digits_value(digits, 0))

\* Whether a text holds a CR LF pair.
has_crlf(s) == \E i \in 2..Len(s) : s[i - 1] = CR /\ s[i] = LF

\* A faulty variant of read_until_crlf: splits at the last CR LF pair of the buffer.
read_until_crlf_last(buffer) ==
    LET at == {i \in 2..Len(buffer) : buffer[i - 1] = CR /\ buffer[i] = LF}
    IN  IF at = {} THEN [ret |-> None, buf |-> buffer]
        ELSE LET i == CHOOSE j \in at : \A k \in at : j >= k
             IN  [ret |-> Some(SubSeq(buffer, 1, i - 2)),
                  buf |-> SubSeq(buffer, i + 1, Len(buffer))]

\* read_until_crlf: split at the first CR LF pair; ret is the bytes before it and buf
\* the buffer after the call.
\* A faulty variant of read_until_crlf: when no CR-LF pair is found the bytes looked
\* at are dropped from the buffer.
read_until_crlf_draining(buffer) ==
    LET at == {i \in 2..Len(buffer) : buffer[i - 1] = CR /\ buffer[i] = LF}
    IN  IF at = {} THEN [ret |-> None, buf |-> <<>>]
        ELSE LET i == CHOOSE j \in at : \A k \in at : j <= k
             IN  [ret |-> Some(SubSeq(buffer, 1, i - 2)),
                  buf |-> SubSeq(buffer, i + 1, Len(buffer))]

read_until_crlf(buffer) ==
    LET at == {i \in 2..Len(buffer) : buffer[i - 1] = CR /\ buffer[i] = LF}
    IN  IF at = {} THEN [ret |-> None, buf |-> buffer]
        ELSE LET i == CHOOSE j \in at : \A k \in at : j <= k
             IN  [ret |-> Some(SubSeq(buffer, 1, i - 2)),
                  buf |-> SubSeq(buffer, i + 1, Len(buffer))]

\* The result of a parser: the value and the buffer left, or the error and the buffer left.
Parsed(v, buf) == [ok |-> TRUE, v |-> v, buf |-> buf]
Failed(e, buf) == [ok |-> FALSE, e |-> e, buf |-> buf]

\* buffer.len() < (n as usize): a negative n becomes 2^64 + n, above every length.
len_below_usize(len, n) == IF n < 0 THEN TRUE ELSE len < n

parse_simple_string(buffer) ==
    LET r == read_until_crlf(buffer)
    IN  IF r.ret # None THEN Parsed(SimpleString(r.ret[1]), r.buf)
        ELSE Failed("Invalid simple string", r.buf)

parse_simple_error(buffer) ==
    LET r == read_until_crlf(buffer)
    IN  IF r.ret # None THEN Parsed(SimpleError(r.ret[1]), r.buf)
        ELSE Failed("Invalid simple error", r.buf)

\* A faulty variant of parse_bulk_body: takes the payload and skips the two bytes after
\* it without looking at them.
parse_bulk_body_unterminated(buffer, what) ==
    LET h == read_until_crlf(buffer)
    IN  IF h.ret = None THEN Failed(what \o " missing length segment", h.buf)
        ELSE LET n == parse_num(h.ret[1])
             IN  IF ~n.ok THEN Failed(n.e, h.buf)
                 ELSE IF len_below_usize(Len(h.buf), n.v)
                 THEN Failed("Message did not match the expected length", h.buf)
                 ELSE Parsed(SubSeq(h.buf, 1, n.v), SubSeq(h.buf, n.v + 3, Len(h.buf)))

\* The body shared by parse_bulk_string and parse_bulk_error: the length line, that
\* many bytes, then CR LF.  ret is the payload.
parse_bulk_body(buffer, what) ==
    LET h == read_until_crlf(buffer)
    IN  IF h.ret = None THEN Failed(what \o " missing length segment", h.buf)
        ELSE LET n == parse_num(h.ret[1])
             IN  IF ~n.ok THEN Failed(n.e, h.buf)
                 ELSE IF len_below_usize(Len(h.buf), n.v)
                 THEN Failed("Message did not match the expected length", h.buf)
                 ELSE LET message == SubSeq(h.buf, 1, n.v)
                          rest == SubSeq(h.buf, n.v + 1, Len(h.buf))
                      IN  IF Len(rest) < 2 THEN Failed("Expected CRLF.", rest)
                          ELSE IF SubSeq(rest, 1, 2) # <<CR, LF>>
                          THEN Failed("Expected CRLF.", SubSeq(rest, 3, Len(rest)))
                          ELSE Parsed(message, SubSeq(rest, 3, Len(rest)))

parse_bulk_string(buffer) ==
    LET r == parse_bulk_body(buffer, "Bulk string")
    IN  IF r.ok THEN Parsed(BulkString(Some(r.v)), r.buf) ELSE r

parse_bulk_error(buffer) ==
    LET r == parse_bulk_body(buffer, "Bulk error")
    IN  IF r.ok THEN Parsed(BulkError(r.v), r.buf) ELSE r

parse_integer(buffer) ==
    LET r == read_until_crlf(buffer)
    IN  IF r.ret = None THEN Failed("Number missing", r.buf)
        ELSE LET n == parse_num(r.ret[1])
             IN  IF n.ok THEN Parsed(Integer(n.v), r.buf)
                 ELSE Failed("Failed to parse number.", r.buf)

RECURSIVE from_bytes(_)
RECURSIVE parse_elements(_, _, _)

\* A faulty variant of parse_elements: an element that fails ends the loop, and the
\* values parsed so far are returned.
RECURSIVE parse_elements_partial(_, _, _)
parse_elements_partial(buffer, count, messages) ==
    IF count = 0 THEN Parsed(Array(messages), buffer)
    ELSE LET m == from_bytes(buffer)
         IN  IF ~m.ok THEN Parsed(Array(messages), m.buf)
             ELSE parse_elements_partial(m.buf, count - 1, Append(messages, m.v))

\* The for loop of parse_array: count more values, appended to messages.
parse_elements(buffer, count, messages) ==
    IF count = 0 THEN Parsed(Array(messages), buffer)
    ELSE LET m == from_bytes(buffer)
         IN  IF ~m.ok THEN Failed("Message did not match expected length", m.buf)
             ELSE parse_elements(m.buf, count - 1, Append(messages, m.v))

\* parse_array: a negative count becomes 2^64 + n as usize, more values than a buffer
\* holds: the loop never counts it down to 0 and ends in the failure of an element.
parse_array(buffer) ==
    LET h == read_until_crlf(buffer)
    IN  IF h.ret = None THEN Failed("Array missing length segment", h.buf)
        ELSE LET n == parse_num(h.ret[1])
             IN  IF ~n.ok THEN Failed(n.e, h.buf)
                 ELSE parse_elements(h.buf, n.v, <<>>)

\* RespType::from_bytes: the first byte selects the parser.
from_bytes(buffer) ==
    IF buffer = <<>> THEN Failed("Buffer empty.", buffer)
    ELSE LET rest == Tail(buffer)
         IN  CASE buffer[1] = "+" -> parse_simple_string(rest)
               [] buffer[1] = "-" -> parse_simple_error(rest)
               [] buffer[1] = "$" -> parse_bulk_string(rest)
               [] buffer[1] = "!" -> parse_bulk_error(rest)
               [] buffer[1] = ":" -> parse_integer(rest)
               [] buffer[1] = "*" -> parse_array(rest)
               [] OTHER -> Failed("Invalid message type.", rest)

\* A faulty variant of serialize: the length written for a bulk string or a bulk error
\* is the one of the first line of the payload.
serialize_line_length(v) ==
    LET first_line(s) == IF has_crlf(s) THEN read_until_crlf(s).ret[1] ELSE s
    IN
    CASE v.t = "SimpleString" -> Ok(<<"+">> \o v.s \o <<CR, LF>>)
      [] v.t = "SimpleError" -> Ok(<<"-">> \o v.s \o <<CR, LF>>)
      [] v.t = "BulkString" /\ v.o # None ->
            Ok(<<"$">> \o format_decimal(Len(first_line(v.o[1]))) \o <<CR, LF>>
               \o v.o[1] \o <<CR, LF>>)
      [] v.t = "BulkString" /\ v.o = None -> Ok(<<"$", "-", "1", CR, LF>>)
      [] v.t = "BulkError" ->
            Ok(<<"!">> \o format_decimal(Len(first_line(v.s))) \o <<CR, LF>>
               \o v.s \o <<CR, LF>>)
      [] v.t = "Integer" -> Ok(<<":">> \o format_i64(v.n) \o <<CR, LF>>)
      [] v.t = "Null" -> Ok(<<"_", CR, LF>>)
      [] OTHER -> Err("Invalid type to serialise.")

\* RespType::serialize: Ok(bytes), or Err for the panic on an Array.
serialize(v) ==
    CASE v.t = "SimpleString" -> Ok(<<"+">> \o v.s \o <<CR, LF>>)
      [] v.t = "SimpleError" -> Ok(<<"-">> \o v.s \o <<CR, LF>>)
      [] v.t = "BulkString" /\ v.o # None ->
            Ok(<<"$">> \o format_decimal(Len(v.o[1])) \o <<CR, LF>> \o v.o[1] \o <<CR, LF>>)
      [] v.t = "BulkString" /\ v.o = None -> Ok(<<"$", "-", "1", CR, LF>>)
      [] v.t = "BulkError" ->
            Ok(<<"!">> \o format_decimal(Len(v.s)) \o <<CR, LF>> \o v.s \o <<CR, LF>>)
      [] v.t = "Integer" -> Ok(<<":">> \o format_i64(v.n) \o <<CR, LF>>)
      [] v.t = "Null" -> Ok(<<"_", CR, LF>>)
      [] OTHER -> Err("Invalid type to serialise.")

(***************************************************************************)
(* handler.rs and main.rs: one task per accepted connection runs           *)
(* RespHandler::run: read_stream, dispatch, write_stream, and again.       *)
(* pc: "none" (not accepted), "read" (suspended in the socket read),       *)
(* "lock" (suspended in store.lock()), "locked" (running with the guard),  *)
(* "write" (suspended in the socket write), "closed" (the loop has ended), *)
(* "panicked" (the task has panicked).                                     *)
(* Dispatch is the loop body of a handler that serves the registry: the    *)
(* command name and the arguments of the message, taken with               *)
(* extract_command, are handed to Register::handle.  get_response of       *)
(* handler.rs, which matches the command name itself, is modelled further  *)
(* down (HandlerRead, HandlerExec, SpecHandler).                           *)
(***************************************************************************)
\* A faulty variant of lock_free: the guard is granted whoever holds one.
lock_always_granted == TRUE

\* A faulty variant of lock_free: a connection keeps the store locked while it waits in
\* its socket read, so the guard is granted only when no connection is reading.
lock_free_and_no_reader == holders = {} /\ \A c \in Conns : pc[c] # "read"

\* A faulty variant of lock_free: a lock with a permit for each connection.
lock_free_permit_each == holders # Conns

\* tokio's Mutex grants the guard only when no task holds one.
lock_free == holders = {}

\* A faulty variant of drop_guard: the guard outlives handle.
keep_guard(c) == holders

\* The guard is a local of handle (a temporary in Set::handle): it is dropped when handle returns.
drop_guard(c) == holders \ {c}

\* A faulty variant of at_loop_top: the next request is read while the response is being written.
at_loop_top_or_writing(c) == pc[c] \in {"read", "write"}

\* run reads the next request only at the top of its loop.
at_loop_top(c) == pc[c] = "read"

\* main: listener.accept() and tokio::spawn of the connection's task.
Accept(c) ==
    /\ pc[c] = "none"
    /\ pc' = [pc EXCEPT ![c] = "read"]
    /\ UNCHANGED <<store, now, holders, req, parsed, reply, obs, decodedN, writtenN, codec, rx, handler_buffer>>

\* A faulty variant of read_stream: a decode error is handed on as a message.
read_stream_error_as_message(buffer, bytes) ==
    IF Len(bytes) = 0 THEN [ret |-> Ok(None), buf |-> buffer]
    ELSE LET r == from_bytes(buffer \o bytes)
         IN  IF r.ok THEN [ret |-> Ok(Some(r.v)), buf |-> r.buf]
             ELSE [ret |-> Ok(Some(SimpleError(r.e))), buf |-> r.buf]

\* A faulty variant of read_stream: bytes that do not decode are reported as an empty
\* Array, and the loop goes on.
read_stream_partial_as_empty(buffer, bytes) ==
    IF Len(bytes) = 0 THEN [ret |-> Ok(None), buf |-> buffer]
    ELSE LET r == from_bytes(buffer \o bytes)
         IN  IF r.ok THEN [ret |-> Ok(Some(r.v)), buf |-> r.buf]
             ELSE [ret |-> Ok(Some(Array(<<>>))), buf |-> r.buf]

\* RespHandler::read_stream: the socket read appends bytes to the buffer; zero bytes
\* read is Ok(None), otherwise one from_bytes of the buffer, whose error is returned.
read_stream(buffer, bytes) ==
    IF Len(bytes) = 0 THEN [ret |-> Ok(None), buf |-> buffer]
    ELSE LET r == from_bytes(buffer \o bytes)
         IN  IF r.ok THEN [ret |-> Ok(Some(r.v)), buf |-> r.buf]
             ELSE [ret |-> Err(r.e), buf |-> r.buf]

\* run: while let Ok(Some(message)) = self.read_stream().await
run_continues(r) == r.ok /\ r.v # None

\* The body of run's loop up to the first suspension: the command named by the
\* message runs up to its lock().await, or to its end when it does not use the store.
Dispatch(c, m) ==
    /\ decodedN' = [decodedN EXCEPT ![c] = @ + 1]
    /\ req' = [req EXCEPT ![c] = Some(m)]
    /\ LET ec == extract_command(m)
       IN  IF ~ec.ok
           THEN /\ pc' = [pc EXCEPT ![c] = "panicked"]
                /\ UNCHANGED <<parsed, reply>>
           ELSE LET d == Register_handle(ec.command, ec.args, now)
                IN  IF d.done
                    THEN /\ pc' = [pc EXCEPT ![c] = "write"]
                         /\ reply' = [reply EXCEPT ![c] = Some(d.reply)]
                         /\ UNCHANGED parsed
                    ELSE /\ pc' = [pc EXCEPT ![c] = "lock"]
                         /\ parsed' = [parsed EXCEPT ![c] = Some(d)]
                         /\ UNCHANGED reply
    /\ UNCHANGED <<store, now, holders, obs, writtenN, codec>>

\* read_stream returns a decoded message m.  budget caps the requests of a connection.
Read(c, m, budget) ==
    /\ at_loop_top(c)
    /\ decodedN[c] < budget
    /\ Dispatch(c, m)
    /\ UNCHANGED <<rx, handler_buffer>>

\* What a socket read returns when it is not a request frame: no bytes (the peer closed
\* the connection), an unknown type tag, a bulk string shorter than its length, a
\* simple string without its CR LF, the Null frame, an array without its element.
ClosingReads ==
    {<<>>, <<"?", CR, LF>>, <<"$", "4", CR, LF, "a", CR, LF>>, <<"+", "a">>,
     <<"_", CR, LF>>, <<"*", "1", CR, LF>>}

\* The socket read returns bytes that are no request frame: none at all, or bytes
\* that do not decode.  read_stream returns Ok(None) or the error and the loop ends.
ReadEnd(c, bytes) ==
    /\ at_loop_top(c)
    /\ rx' = [rx EXCEPT ![c] = Some(bytes)]
    /\ LET r == read_stream(handler_buffer[c], bytes)
       IN  /\ handler_buffer' = [handler_buffer EXCEPT ![c] = r.buf]
           /\ IF run_continues(r.ret)
              THEN Dispatch(c, r.ret.v[1])
              ELSE /\ pc' = [pc EXCEPT ![c] = "closed"]
                   /\ UNCHANGED <<store, now, holders, req, parsed, reply, obs, decodedN,
                                  writtenN, codec>>

\* store.lock().await completes.
Acquire(c) ==
    /\ pc[c] = "lock"
    /\ lock_free
    /\ holders' = holders \cup {c}
    /\ pc' = [pc EXCEPT ![c] = "locked"]
    /\ UNCHANGED <<store, now, req, parsed, reply, obs, decodedN, writtenN, codec, rx, handler_buffer>>

\* The rest of handle, with the guard held; the guard is dropped on return.
Exec(c) ==
    /\ pc[c] = "locked"
    /\ LET p == parsed[c][1]
           r == command_locked(p, store, now)
       IN  /\ store' = r.store
           /\ reply' = [reply EXCEPT ![c] = Some(r.reply)]
           /\ obs' = [obs EXCEPT ![c] =
                         Some([raw |-> map_get(store, p.key), ret |-> r.ret, at |-> now])]
    /\ holders' = drop_guard(c)
    /\ pc' = [pc EXCEPT ![c] = "write"]
    /\ UNCHANGED <<now, req, parsed, decodedN, writtenN, codec, rx, handler_buffer>>

\* write_stream: write_all of the serialized response completes; back to the top of the loop.
\* The kinds of value serialize has an arm for; any other reaches its panic!.
serializes(v) ==
    v.t \in {"SimpleString", "SimpleError", "BulkString", "BulkError", "Integer", "Null"}

\* write_stream(response).await.unwrap(): the response is serialized and written, or
\* the task ends in serialize's panic, which drops the response unwritten.
Write(c) ==
    /\ pc[c] = "write"
    /\ IF serializes(reply[c][1])
       THEN /\ writtenN' = [writtenN EXCEPT ![c] = @ + 1]
            /\ pc' = [pc EXCEPT ![c] = "read"]
            /\ req' = [req EXCEPT ![c] = None]
            /\ parsed' = [parsed EXCEPT ![c] = None]
            /\ reply' = [reply EXCEPT ![c] = None]
            /\ obs' = [obs EXCEPT ![c] = None]
       ELSE /\ pc' = [pc EXCEPT ![c] = "panicked"]
            /\ parsed' = [parsed EXCEPT ![c] = None]
            /\ reply' = [reply EXCEPT ![c] = None]
            /\ obs' = [obs EXCEPT ![c] = None]
            /\ UNCHANGED <<writtenN, req>>
    /\ UNCHANGED <<store, now, holders, decodedN, codec, rx, handler_buffer>>

\* The clock advances by a millisecond.
Tick ==
    /\ now < MaxTime
    /\ now' = now + 1
    /\ UNCHANGED <<store, holders, pc, req, parsed, reply, obs, decodedN, writtenN, codec, rx, handler_buffer>>

Init ==
    /\ store = <<>>
    /\ now = 0
    /\ holders = {}
    /\ pc = [c \in Conns |-> "none"]
    /\ req = [c \in Conns |-> None]
    /\ parsed = [c \in Conns |-> None]
    /\ reply = [c \in Conns |-> None]
    /\ obs = [c \in Conns |-> None]
    /\ decodedN = [c \in Conns |-> 0]
    /\ writtenN = [c \in Conns |-> 0]
    /\ codec = None
    /\ rx = [c \in Conns |-> None]
    /\ handler_buffer = [c \in Conns |-> <<>>]

\* One connection: the commands in sequence, the clock advancing in between.
Next ==
    \/ Tick
    \/ Accept("c1")
    \/ \E m \in Requests : Read("c1", m, MaxReqs)
    \/ \E bytes \in ClosingReads : ReadEnd("c1", bytes)
    \/ Acquire("c1")
    \/ Exec("c1")
    \/ Write("c1")

Spec == Init /\ [][Next]_vars

\* Two connections sharing the store.
NextShared ==
    \/ Tick
    \/ \E c \in Conns : Accept(c)
    \/ \E c \in Conns : \E m \in SharedRequests : Read(c, m, MaxSharedReqs)
    \/ \E c \in Conns : ReadEnd(c, <<>>)
    \/ \E c \in Conns : Acquire(c)
    \/ \E c \in Conns : Exec(c)
    \/ \E c \in Conns : Write(c)

SpecShared == Init /\ [][NextShared]_vars

(***************************************************************************)
(* handler.rs as the source tree has it: get_response matches the          *)
(* lower-cased command name itself, with its own handle_set and            *)
(* handle_get, and panics where it has no answer.  The map holds string    *)
(* entries only.  The clock of a PX is read with the guard held.           *)
(***************************************************************************)
\* The task has panicked: the request gets no response.
Panicked == [done |-> TRUE, panic |-> TRUE]
\* handle_set or handle_get suspended in store.lock().await.
Awaiting(cmd, key, value, deletion_instant) ==
    [done |-> FALSE, cmd |-> cmd, key |-> key, value |-> value,
     deletion_instant |-> deletion_instant]

\* handle_set up to store.lock().await: [key, value, ..], then args.get(2..4) as PX.
handle_set(args) ==
    IF Len(args) < 2 THEN Panicked
    ELSE LET key == extract_string(args[1])
             value == extract_string(args[2])
         IN  IF ~key.ok \/ ~value.ok THEN Panicked
             ELSE IF Len(args) < 4 THEN Awaiting("set", key.v, value.v, None)
             ELSE LET param == extract_string(args[3])
                      duration == extract_string(args[4])
                  IN  IF param.ok /\ duration.ok /\ to_lowercase(param.v) = "px"
                         /\ parse_u64(duration.v).ok
                      THEN Awaiting("set", key.v, value.v, Some(parse_u64(duration.v).v))
                      ELSE Awaiting("set", key.v, value.v, None)

\* handle_set with the guard held.
handle_set_locked(st, p, t) ==
    LET entry == IF p.deletion_instant = None THEN new_string(p.value)
                 ELSE with_deletion(new_string(p.value), p.deletion_instant[1], t)
    IN  [store |-> map_insert(st, p.key, entry), ret |-> map_get(st, p.key),
         reply |-> SimpleString("OK")]

\* handle_get up to store.lock().await: [key, ..].
handle_get(args) ==
    IF Len(args) < 1 THEN Panicked
    ELSE LET key == extract_string(args[1])
         IN  IF ~key.ok THEN Panicked ELSE Awaiting("get", key.v, "", None)

\* handle_get with the guard held.
handle_get_locked(st, p, t) ==
    LET found == map_get(st, p.key)
    IN  IF found = None
        THEN [store |-> st, ret |-> found, reply |-> BulkString(None)]
        ELSE IF is_expired(found[1], t)
        THEN [store |-> map_remove(st, p.key), ret |-> found, reply |-> BulkString(None)]
        ELSE [store |-> st, ret |-> found, reply |-> BulkString(Some(found[1].value.s))]

\* get_response up to the first await.
get_response(message) ==
    LET ec == extract_command(message)
    IN  IF ~ec.ok THEN Panicked
        ELSE LET name == to_lowercase(ec.command)
             IN  CASE name = "ping" -> Done(SimpleString("PONG"))
                   [] name = "echo" ->
                        IF ec.args = <<>> THEN Panicked ELSE Done(ec.args[1])
                   [] name = "set" -> handle_set(ec.args)
                   [] name = "get" -> handle_get(ec.args)
                   [] OTHER -> Panicked

\* The body of run's loop up to the first suspension: get_response runs up to its
\* first await.
HandlerDispatch(c, m) ==
    /\ decodedN' = [decodedN EXCEPT ![c] = @ + 1]
    /\ req' = [req EXCEPT ![c] = Some(m)]
    /\ LET d == get_response(m)
       IN  IF "panic" \in DOMAIN d
           THEN /\ pc' = [pc EXCEPT ![c] = "panicked"]
                /\ UNCHANGED <<parsed, reply>>
           ELSE IF d.done
           THEN /\ pc' = [pc EXCEPT ![c] = "write"]
                /\ reply' = [reply EXCEPT ![c] = Some(d.reply)]
                /\ UNCHANGED parsed
           ELSE /\ pc' = [pc EXCEPT ![c] = "lock"]
                /\ parsed' = [parsed EXCEPT ![c] = Some(d)]
                /\ UNCHANGED reply
    /\ UNCHANGED <<store, now, holders, obs, writtenN, codec>>

\* read_stream returns a decoded message m.
HandlerRead(c, m, budget) ==
    /\ at_loop_top(c)
    /\ decodedN[c] < budget
    /\ HandlerDispatch(c, m)
    /\ UNCHANGED <<rx, handler_buffer>>

\* The rest of handle_set or handle_get, with the guard held.
HandlerExec(c) ==
    /\ pc[c] = "locked"
    /\ LET p == parsed[c][1]
           r == IF p.cmd = "set" THEN handle_set_locked(store, p, now)
                ELSE handle_get_locked(store, p, now)
       IN  /\ store' = r.store
           /\ reply' = [reply EXCEPT ![c] = Some(r.reply)]
           /\ obs' = [obs EXCEPT ![c] =
                         Some([raw |-> map_get(store, p.key), ret |-> r.ret, at |-> now])]
    /\ holders' = drop_guard(c)
    /\ pc' = [pc EXCEPT ![c] = "write"]
    /\ UNCHANGED <<now, req, parsed, decodedN, writtenN, codec, rx, handler_buffer>>

\* One connection served by get_response.
NextHandler ==
    \/ Tick
    \/ Accept("c1")
    \/ \E m \in Requests : HandlerRead("c1", m, MaxReqs)
    \/ \E bytes \in ClosingReads : ReadEnd("c1", bytes)
    \/ Acquire("c1")
    \/ HandlerExec("c1")
    \/ Write("c1")

SpecHandler == Init /\ [][NextHandler]_vars

(***************************************************************************)
(* Steps of a connection, as seen in a pair of states.                     *)
(***************************************************************************)
\* The step in which c's command runs under the lock.
ExecStep(c, cmd) == pc[c] = "locked" /\ pc'[c] = "write" /\ parsed[c][1].cmd = cmd
\* The step in which c's request is decoded and its options are parsed.
ReadStep(c) == pc[c] = "read" /\ req'[c] # None
\* An entry that is not expired at time t.
Live(e, t) == e.deletion_time = None \/ e.deletion_time[1] > t

\* C1: no Store access (get, entry, the previous entry of insert) yields an entry whose
\* deletion_time is at or before the time of the access, and a key whose entry has
\* expired is answered exactly as a key that was never set.
C1_NoExpiredEntryYielded ==
    \A c \in Conns :
        obs[c] # None =>
            LET o == obs[c][1]
            IN  /\ o.ret # None =>
                     (o.ret[1].deletion_time = None \/ o.ret[1].deletion_time[1] > o.at)
                /\ (o.raw # None /\ ~Live(o.raw[1], o.at)) =>
                     /\ o.ret = None
                     /\ reply[c] = Some(command_locked(parsed[c][1], <<>>, o.at).reply)

\* C1 witness: a GET has found an expired entry in the map and has returned Null.
C1_Witness ==
    \E c \in Conns :
        /\ obs[c] # None /\ parsed[c] # None /\ parsed[c][1].cmd = "GET"
        /\ obs[c][1].raw # None /\ ~Live(obs[c][1].raw[1], obs[c][1].at)
        /\ reply[c] = Some(Null)

C3_SetOverwrites ==
    [][\A c \in Conns :
        ExecStep(c, "SET") =>
            LET k == parsed[c][1].key
                tokens == req[c][1].a
                v2 == tokens[3].o[1]
            IN  /\ reply'[c] = Some(SimpleString("OK"))
                /\ k \in DOMAIN store'
                /\ store'[k].value = EntryString(v2)
                /\ store'[k].deletion_time = parsed[c][1].entry[1].deletion_time
                /\ Len(tokens) = 3 => store'[k].deletion_time = None
                /\ \A t \in now..(MaxTime + 3) :
                      Get_locked(store', k, t).reply =
                          IF Live(parsed[c][1].entry[1], t) THEN BulkString(Some(v2)) ELSE Null
      ]_vars

\* C3 witness: a SET without PX has replaced a live entry that had a deletion time.
C3_Witness ==
    \E c \in Conns :
        /\ pc[c] = "write" /\ parsed[c] # None /\ parsed[c][1].cmd = "SET"
        /\ obs[c][1].raw # None
        /\ obs[c][1].raw[1].deletion_time # None
        /\ Live(obs[c][1].raw[1], obs[c][1].at)
        /\ store[parsed[c][1].key].deletion_time = None
        /\ store[parsed[c][1].key].value # obs[c][1].raw[1].value

\* C4: RPUSH on a key that holds a live String returns the WRONGTYPE BulkError that
\* names the key and leaves the whole store as it was.
C4_RpushWrongType ==
    [][\A c \in Conns :
        (/\ ExecStep(c, "RPUSH")
         /\ parsed[c][1].key \in DOMAIN store
         /\ store[parsed[c][1].key].value.t = "String"
         /\ Live(store[parsed[c][1].key], now))
        => /\ reply'[c] = Some(BulkError("WRONGTYPE Entry at key " \o parsed[c][1].key
                                          \o " is not a list"))
           /\ store' = store
      ]_vars

\* C4 witness: an RPUSH has been refused on a live String that carries a deletion time.
C4_Witness ==
    \E c \in Conns :
        /\ pc[c] = "write" /\ parsed[c] # None /\ parsed[c][1].cmd = "RPUSH"
        /\ reply[c] = Some(BulkError("WRONGTYPE Entry at key k1 is not a list"))
        /\ "k1" \in DOMAIN store
        /\ store["k1"].value.t = "String"
        /\ store["k1"].deletion_time # None

\* C5: GET on a key that holds a live List returns the WRONGTYPE BulkError and leaves
\* the entry, its list and its deletion time, in the map as it was.
C5_GetWrongType ==
    [][\A c \in Conns :
        (/\ ExecStep(c, "GET")
         /\ parsed[c][1].key \in DOMAIN store
         /\ store[parsed[c][1].key].value.t = "List"
         /\ Live(store[parsed[c][1].key], now))
        => /\ reply'[c] = Some(BulkError("WRONGTYPE stored type is not a string"))
           /\ parsed[c][1].key \in DOMAIN store'
           /\ store'[parsed[c][1].key] = store[parsed[c][1].key]
           /\ store' = store
      ]_vars

\* C5 witness: a GET has been refused on a List, which is still in the map.
C5_Witness ==
    \E c \in Conns :
        /\ pc[c] = "write" /\ parsed[c] # None /\ parsed[c][1].cmd = "GET"
        /\ reply[c] = Some(BulkError("WRONGTYPE stored type is not a string"))
        /\ parsed[c][1].key \in DOMAIN store
        /\ store[parsed[c][1].key].value.t = "List"
        /\ Len(store[parsed[c][1].key].value.l) >= 2

\* C6: RPUSH on a key that is absent or holds a live List appends the values at the
\* tail, in argument order, and returns Integer(old length + n); so successive RPUSH
\* calls leave the concatenation of their values.
C6_RpushAppends ==
    [][\A c \in Conns :
        LET k == parsed[c][1].key
            values == [i \in 1..(Len(req[c][1].a) - 2) |-> req[c][1].a[i + 2].o[1]]
            old == IF k \in DOMAIN store THEN store[k].value.l ELSE <<>>
        IN  (/\ ExecStep(c, "RPUSH")
             /\ (k \notin DOMAIN store \/ (store[k].value.t = "List" /\ Live(store[k], now))))
            => /\ Len(values) >= 1
               /\ k \in DOMAIN store'
               /\ store'[k].value = EntryList(old \o values)
               /\ reply'[c] = Some(Integer(Len(old) + Len(values)))
      ]_vars

\* C6 witness: the list holds the values of two RPUSH calls, in call order, and the
\* second call has returned the total length.
C6_Witness ==
    \E c \in Conns :
        /\ pc[c] = "write" /\ parsed[c] # None /\ parsed[c][1].cmd = "RPUSH"
        /\ obs[c][1].raw # None
        /\ obs[c][1].raw[1].value = EntryList(<<"a">>)
        /\ store[parsed[c][1].key].value = EntryList(<<"a", "b", "a">>)
        /\ reply[c] = Some(Integer(3))

\* C7: at most one connection task holds the store lock, and the map is read or
\* changed by a command only in a step of the task that holds it.
C7_MutualExclusion ==
    /\ [](Cardinality(holders) <= 1)
    /\ [][\A c \in Conns :
            /\ (store' # store) => (\E h \in Conns : holders = {h} /\ pc[h] = "locked"
                                                     /\ pc'[h] = "write")
            /\ (obs'[c] # obs[c] /\ obs'[c] # None) => (holders = {c} /\ pc[c] = "locked")
         ]_vars

\* C7 witness: one task holds the lock with its command not yet run while the other
\* task waits for the lock, both commands being store commands.
C7_Witness ==
    \E c, w \in Conns :
        /\ c # w
        /\ holders = {c} /\ pc[c] = "locked"
        /\ pc[w] = "lock"
        /\ parsed[c][1].cmd = "SET" /\ parsed[w][1].cmd = "GET"

\* C8: a task that is suspended in a socket read or a socket write does not hold the
\* store lock: the lock is held only while one command runs, before its response is
\* written.
C8_NoLockAcrossIo ==
    \A c \in Conns :
        /\ c \in holders => pc[c] = "locked"
        /\ pc[c] \in {"read", "write"} => c \notin holders

\* C8 witness: a task is writing the response of a store command and the lock is free
\* for the other task, which waits for it.
C8_Witness ==
    \E c, w \in Conns :
        /\ c # w
        /\ pc[c] = "write" /\ obs[c] # None
        /\ pc[w] = "lock"
        /\ holders = {}

\* C9: on one connection the k-th response written answers the k-th request decoded,
\* and a request is decoded only after the response to the one before it is written.
C9_InOrderResponses ==
    /\ [](\A c \in Conns :
            /\ writtenN[c] <= decodedN[c] /\ decodedN[c] <= writtenN[c] + 1
            /\ pc[c] \in {"none", "read", "closed"} => decodedN[c] = writtenN[c]
            /\ pc[c] \in {"lock", "locked", "write"} =>
                  (decodedN[c] = writtenN[c] + 1 /\ req[c] # None)
            /\ pc[c] = "write" => reply[c] # None)
    /\ [][\A c \in Conns :
            /\ decodedN'[c] # decodedN[c] =>
                  (writtenN[c] = decodedN[c] /\ decodedN'[c] = decodedN[c] + 1)
            /\ writtenN'[c] # writtenN[c] =>
                  (writtenN'[c] = decodedN[c] /\ reply[c] # None /\ pc'[c] = "read")
         ]_vars

\* C9 witness: the second request of a connection has its response ready to be
\* written, the first response being written already.
C9_Witness ==
    \E c \in Conns :
        /\ writtenN[c] = 1 /\ decodedN[c] = 2
        /\ pc[c] = "write" /\ reply[c] # None

(***************************************************************************)
(* The codec on its own: a value is chosen, serialized, and the bytes are  *)
(* parsed back.                                                            *)
(***************************************************************************)
MaxTextLen == 2
MaxInt == 12

\* The bytes texts are made of.
TextBytes == {"a", CR, LF}
Texts == UNION {[1..n -> TextBytes] : n \in 0..MaxTextLen}

\* The values serialize accepts.
CodecValues ==
    {SimpleString(s) : s \in Texts} \cup {SimpleError(s) : s \in Texts}
    \cup {BulkString(Some(s)) : s \in Texts} \cup {BulkString(None)}
    \cup {BulkError(s) : s \in Texts}
    \cup {Integer(n) : n \in (0 - MaxInt)..MaxInt} \cup {Null}

CodecChoose(v) ==
    /\ codec = None
    /\ codec' = Some([stage |-> "value", v |-> v, buf |-> <<>>, res |-> None])
    /\ UNCHANGED <<store, now, holders, pc, req, parsed, reply, obs, decodedN, writtenN, rx, handler_buffer>>

CodecSerialize ==
    /\ codec # None /\ codec[1].stage = "value"
    /\ serialize(codec[1].v).ok
    /\ codec' = Some([codec[1] EXCEPT !.stage = "wire", !.buf = serialize(codec[1].v).v])
    /\ UNCHANGED <<store, now, holders, pc, req, parsed, reply, obs, decodedN, writtenN, rx, handler_buffer>>

CodecParse ==
    /\ codec # None /\ codec[1].stage = "wire"
    /\ LET r == from_bytes(codec[1].buf)
       IN  codec' = Some([codec[1] EXCEPT !.stage = "parsed", !.buf = r.buf, !.res = Some(r)])
    /\ UNCHANGED <<store, now, holders, pc, req, parsed, reply, obs, decodedN, writtenN, rx, handler_buffer>>

NextCodec ==
    \/ \E v \in CodecValues : CodecChoose(v)
    \/ CodecSerialize
    \/ CodecParse

SpecCodec == Init /\ [][NextCodec]_vars

\* C10: for every value serialize accepts, parsing the bytes it gives succeeds and
\* returns a value equal to the one serialized.
C10_RoundTrip ==
    (codec # None /\ codec[1].stage = "parsed") =>
        (codec[1].res[1].ok /\ codec[1].res[1].v = codec[1].v)

\* C11: the wire forms of an absent bulk string and of Null stay distinct in both
\* directions: serialize gives them different bytes, and the bytes of each parse back
\* to the value they were made from, never to the other one.
C11_NullFormsDistinct ==
    /\ serialize(BulkString(None)) # serialize(Null)
    /\ (codec # None /\ codec[1].stage = "parsed" /\ codec[1].v \in {BulkString(None), Null}) =>
           /\ codec[1].res[1].ok
           /\ codec[1].v = BulkString(None) => codec[1].res[1].v = BulkString(None)
           /\ codec[1].v = Null => codec[1].res[1].v = Null

\* C12: when a socket read returns zero bytes, or bytes that fail to decode, the
\* connection loop ends: nothing is dispatched for that read, no response is written,
\* the store is unchanged, and the ended connection takes no further step.
C12_FailedReadEndsLoop ==
    [][\A c \in Conns :
        /\ (rx[c] = None /\ rx'[c] # None
              /\ (Len(rx'[c][1]) = 0 \/ ~from_bytes(rx'[c][1]).ok)) =>
               /\ pc'[c] = "closed"
               /\ store' = store /\ holders' = holders
               /\ req' = req /\ parsed' = parsed /\ reply' = reply
               /\ decodedN' = decodedN /\ writtenN' = writtenN
        /\ pc[c] = "closed" =>
               /\ pc'[c] = "closed"
               /\ decodedN'[c] = decodedN[c] /\ writtenN'[c] = writtenN[c]
               /\ store' # store => \E d \in Conns \ {c} : pc[d] = "locked"]_vars

\* A request was answered and stored something, then a read returned a bulk string
\* shorter than its length and the loop ended.
C12_Witness ==
    /\ pc["c1"] = "closed"
    /\ rx["c1"] = Some(<<"$", "4", CR, LF, "a", CR, LF>>)
    /\ writtenN["c1"] >= 1 /\ decodedN["c1"] = writtenN["c1"]
    /\ store # <<>>

\* C13: a request answered with an error reply leaves the connection open: the
\* handler returns to Reading after writing the reply, and a connection's task ends
\* only by a read of zero bytes or of bytes that fail to decode.
C13_OnlyFailedReadEndsSession ==
    [][\A c \in Conns :
        /\ (pc[c] # pc'[c] /\ pc'[c] \in {"closed", "panicked"}) =>
               /\ rx[c] = None /\ rx'[c] # None
               /\ Len(rx'[c][1]) = 0 \/ ~from_bytes(rx'[c][1]).ok
        /\ (pc[c] = "read" /\ req'[c] # None /\ req'[c][1].t = "Array"
              /\ req'[c][1].a # <<>>) => pc'[c] \in {"lock", "write"}
        /\ (pc[c] = "write" /\ pc'[c] # "write") => pc'[c] = "read"]_vars

\* C14: dispatching a command name that is not registered returns the SimpleError
\* "ERR Command (<name>) is not valid" with the name as the caller gave it, in the
\* step that decodes the request: the store lock is not requested and the store is
\* unchanged.
C14_UnknownCommand ==
    [][\A c \in Conns :
        (ReadStep(c) /\ req'[c][1].t = "Array" /\ req'[c][1].a # <<>>
           /\ req'[c][1].a[1] \in {BulkString(Some("FOO")), BulkString(Some("foo"))}) =>
            /\ reply'[c] =
                 Some(SimpleError("ERR Command (" \o req'[c][1].a[1].o[1] \o ") is not valid"))
            /\ pc'[c] = "write" /\ parsed'[c] = None
            /\ holders' = holders /\ store' = store]_vars

\* The unknown command foo, given in lower case with an argument that is a key of the
\* store, has been answered.
C14_Witness ==
    /\ pc["c1"] = "write"
    /\ req["c1"] = Some(Request(<<"foo", "k1">>))
    /\ reply["c1"] = Some(SimpleError("ERR Command (foo) is not valid"))
    /\ "k1" \in DOMAIN store

\* C15: command lookup is case-insensitive.  A request that names a registered command
\* in lower or mixed case is handled exactly as the same arguments under the
\* upper-case name are, on the same store and at the same time: the same reply, or
\* the same parsed command going on to the store; and a name registered in lower or
\* mixed case is found under every spelling.
C15_CaseInsensitiveLookup ==
    [][LET Canon(n) == CASE n \in {"get", "Get", "GET"} -> "GET"
                         [] n \in {"Set", "SET"} -> "SET"
                         [] n \in {"rpush", "RPUSH"} -> "RPUSH"
                         [] n \in {"Ping", "PING"} -> "PING"
                         [] n \in {"echo", "ECHO"} -> "ECHO"
           Spellings == {"get", "Get", "GET", "Set", "SET", "rpush", "RPUSH", "Ping",
                         "PING", "echo", "ECHO"}
       IN  /\ \A c \in Conns :
                (ReadStep(c) /\ req'[c][1].t = "Array" /\ req'[c][1].a # <<>>
                   /\ req'[c][1].a[1] \in {BulkString(Some(n)) : n \in Spellings}) =>
                    LET a == req'[c][1].a
                        d == Register_handle(Canon(a[1].o[1]), Tail(a), now)
                    IN  IF d.done
                        THEN pc'[c] = "write" /\ reply'[c] = Some(d.reply) /\ store' = store
                        ELSE pc'[c] = "lock" /\ parsed'[c] = Some(d) /\ store' = store
           /\ \A n \in {"get", "Get"} : \A m \in {"get", "Get", "GET"} :
                to_uppercase(m) \in Register_register({}, n)]_vars

\* A GET spelled in lower case has found the live value a SET spelled in mixed case stored.
C15_Witness ==
    /\ pc["c1"] = "write"
    /\ req["c1"] = Some(Request(<<"get", "k1">>))
    /\ reply["c1"] = Some(BulkString(Some("b")))
    /\ decodedN["c1"] >= 2

\* C16: whenever GET, SET or RPUSH rejects its arguments, the reply is a BulkError
\* "ERR <reason> for '<CMD>' command", produced before the store lock is requested,
\* and the store is unchanged: no partial SET and no partial RPUSH append.
C16_ArgumentErrors ==
    [][LET Text(tokens) == [i \in 1..Len(tokens) |-> BulkString(Some(tokens[i]))]
           Rejected ==
             {<<Array(Text(<<"GET">>)), "ERR Missing key for 'GET' command">>,
              <<Array(Text(<<"GET">>) \o <<Null>>),
                "ERR Failed to extract key for 'GET' command">>,
              <<Array(Text(<<"SET", "k1">>)), "ERR Missing value for 'SET' command">>,
              <<Array(Text(<<"SET", "k1">>) \o <<Integer(1)>>),
                "ERR Failed to extract value for 'SET' command">>,
              <<Array(Text(<<"SET", "k1", "a", "EX", "1">>)),
                "ERR EX is not a valid option for 'SET' command">>,
              <<Array(Text(<<"SET", "k1", "a", "PX">>)),
                "ERR Missing milliseconds for PX option for 'SET' command">>,
              <<Array(Text(<<"SET", "k1", "a", "PX", "x">>)),
                "ERR Failed to convert PX duration string to a number for 'SET' command">>,
              <<Array(Text(<<"RPUSH", "k1">>)),
                "ERR At least one value must be provided for 'RPUSH' command">>,
              <<Array(Text(<<"RPUSH", "k1", "a">>) \o <<Null>>),
                "ERR Failed to extract value for 'RPUSH' command">>}
       IN  \A c \in Conns :
             /\ \A r \in Rejected :
                  (ReadStep(c) /\ req'[c] = Some(r[1])) =>
                      /\ reply'[c] = Some(BulkError(r[2]))
                      /\ pc'[c] = "write" /\ parsed'[c] = None
                      /\ holders' = holders /\ store' = store
             /\ (pc[c] = "write" /\ pc'[c] # "write"
                   /\ \E r \in Rejected : req[c] = Some(r[1])) =>
                      /\ pc'[c] = "read" /\ store' = store]_vars

\* RPUSH k1 a Null has been rejected while k1 holds a list: the list is as it was.
C16_Witness ==
    /\ pc["c1"] = "write"
    /\ req["c1"] = Some(Array(<<BulkString(Some("RPUSH")), BulkString(Some("k1")),
                                BulkString(Some("a")), Null>>))
    /\ reply["c1"] = Some(BulkError("ERR Failed to extract value for 'RPUSH' command"))
    /\ "k1" \in DOMAIN store /\ store["k1"].value = EntryList(<<"a">>)

\* C17: GET requires exactly one argument: a GET given two or more arguments is
\* rejected with a BulkError before the store is reached, instead of being answered
\* from its first argument.
C17_GetExactlyOneArgument ==
    [][\A c \in Conns :
        (ReadStep(c) /\ req'[c][1].t = "Array" /\ Len(req'[c][1].a) >= 3
           /\ req'[c][1].a[1] = BulkString(Some("GET"))) =>
            /\ pc'[c] = "write"
            /\ reply'[c] # None /\ reply'[c][1].t = "BulkError"]_vars

\* C17, amended: GET requires at least one argument and reads only the first: a GET
\* given two or more arguments goes on to the store exactly as the GET of its first
\* argument alone does, and is answered from that key.
C17_GetReadsFirstArgument ==
    [][\A c \in Conns :
        /\ (ReadStep(c) /\ req'[c][1].t = "Array" /\ Len(req'[c][1].a) >= 3
              /\ req'[c][1].a[1] = BulkString(Some("GET"))) =>
               /\ pc'[c] = "lock"
               /\ parsed'[c] = Some(Register_handle("GET", <<req'[c][1].a[2]>>, now))
               /\ parsed'[c][1].key = req'[c][1].a[2].o[1]
               /\ reply'[c] = None /\ store' = store
        /\ (ExecStep(c, "GET") /\ Len(req[c][1].a) >= 3) =>
               LET k == req[c][1].a[2].o[1]
               IN  /\ obs'[c][1].raw = map_get(store, k)
                   /\ reply'[c] = Some(Get_locked(store, k, now).reply)
                   /\ \A k2 \in Keys \ {k} : map_get(store', k2) = map_get(store, k2)]_vars

\* GET k1 k2 has been answered with the string k1 holds, while k2 holds a list.
C17_Witness ==
    /\ pc["c1"] = "write"
    /\ req["c1"] = Some(Request(<<"GET", "k1", "k2">>))
    /\ reply["c1"] = Some(BulkString(Some("a")))
    /\ "k2" \in DOMAIN store /\ store["k2"].value.t = "List"

C19_OnlySlotOfKey ==
    [][/\ \A c \in Conns :
            (pc[c] = "locked" /\ pc'[c] = "write") =>
                \A k2 \in Keys \ {parsed[c][1].key} : map_get(store', k2) = map_get(store, k2)
       /\ (\A c \in Conns : ~(pc[c] = "locked" /\ pc'[c] = "write")) => store' = store
       /\ now' # now => store' = store]_vars

\* A command on k1 has run after the deadline of k2's entry, and that entry is still
\* in the map.
C19_Witness ==
    /\ pc["c1"] = "write" /\ parsed["c1"] # None /\ parsed["c1"][1].key = "k1"
    /\ obs["c1"] # None
    /\ "k2" \in DOMAIN store /\ ~Live(store["k2"], obs["c1"][1].at)

\* C20: in every reachable state the store's map retains no entry whose deletion_time
\* is at or before the current time.
C20_NoExpiredRetained ==
    \A k \in DOMAIN store : Live(store[k], now)

\* C20, amended: expiry is lazy.  The map may retain an expired entry, but only
\* until a command names its key: a GET or RPUSH of k leaves no entry of k that is
\* expired at the time it runs, and a SET of k leaves the entry of that SET and nothing
\* of what k held before.
C20_ExpiredGoneOnAccess ==
    [][\A c \in Conns :
        /\ (ExecStep(c, "GET") \/ ExecStep(c, "RPUSH")) =>
               LET k == parsed[c][1].key
               IN  /\ k \in DOMAIN store' => Live(store'[k], now)
                   /\ (k \in DOMAIN store /\ ~Live(store[k], now)) =>
                          map_get(store', k) \in {None, Some([new_list EXCEPT !.value =
                              EntryList(parsed[c][1].values)])}
        /\ ExecStep(c, "SET") =>
               map_get(store', parsed[c][1].key) = parsed[c][1].entry]_vars

\* A GET of k1 has removed k1's expired entry while k2's expired entry is still in
\* the map.
C20_Witness ==
    /\ pc["c1"] = "write" /\ parsed["c1"] # None
    /\ parsed["c1"][1].cmd = "GET" /\ parsed["c1"][1].key = "k1"
    /\ obs["c1"] # None /\ obs["c1"][1].raw # None /\ ~Live(obs["c1"][1].raw[1], obs["c1"][1].at)
    /\ "k1" \notin DOMAIN store
    /\ "k2" \in DOMAIN store /\ ~Live(store["k2"], now)

(***************************************************************************)
(* Two connections under fair scheduling.  The tokio runtime polls every   *)
(* task that is ready, the Mutex hands the guard to its waiters in turn,   *)
(* and a write to the socket completes: the steps a task takes by itself   *)
(* (Acquire, Exec, Write) are weakly fair.  Nothing makes a client send:   *)
(* Read, ReadEnd and Accept are not fair, so a connection may stay in its  *)
(* socket read for ever.                                                   *)
(***************************************************************************)
FairRequests ==
    {Request(<<"SET", "k1", "a">>), Request(<<"RPUSH", "k1", "a">>), Request(<<"PING">>)}

NextFair ==
    \/ Tick
    \/ \E c \in Conns : Accept(c)
    \/ \E c \in Conns : \E m \in FairRequests : Read(c, m, MaxFairReqs)
    \/ \E c \in Conns : ReadEnd(c, <<>>)
    \/ \E c \in Conns : Acquire(c)
    \/ \E c \in Conns : Exec(c)
    \/ \E c \in Conns : Write(c)

SpecFair ==
    /\ Init /\ [][NextFair]_vars
    /\ \A c \in Conns : WF_vars(Acquire(c)) /\ WF_vars(Exec(c)) /\ WF_vars(Write(c))

\* C21: a connection waiting in its socket read does not hold the store lock; under
\* fair scheduling every command a connection has issued acquires the lock, completes
\* and is answered, whatever the other connection does or fails to do; and whenever a
\* task waits for the lock, the lock is free or its holder is running.
C21_StalledReaderBlocksNobody ==
    /\ [](\A c \in Conns : pc[c] = "read" => c \notin holders)
    /\ [](\A c \in Conns :
            pc[c] = "lock" => (holders = {} \/ \E d \in holders : pc[d] = "locked"))
    /\ \A c \in Conns : \A n \in 1..(MaxFairReqs + 1) :
            (pc[c] \in {"lock", "write"} /\ decodedN[c] = n) ~> (writtenN[c] = n)

\* c1 has been accepted and has sent nothing, while c2 has had two commands answered,
\* the second of them run under the lock.
C21_Witness ==
    /\ pc["c1"] = "read" /\ decodedN["c1"] = 0
    /\ pc["c2"] = "write" /\ decodedN["c2"] = 2 /\ writtenN["c2"] = 1
    /\ obs["c2"] # None

\* C22: a decoded request that is not an Array, or is an empty Array, is fatal: no
\* command is run for it, no reply is produced for it then or later, and the store
\* is unchanged.
C22_NonArrayRequestFatal ==
    [][\A c \in Conns :
        /\ (ReadStep(c) /\ (req'[c][1].t # "Array" \/ req'[c][1].a = <<>>)) =>
               /\ pc'[c] = "panicked"
               /\ parsed'[c] = None /\ reply'[c] = None
               /\ store' = store /\ holders' = holders /\ writtenN' = writtenN
        /\ pc[c] = "panicked" =>
               /\ pc'[c] = "panicked"
               /\ parsed'[c] = None /\ reply'[c] = None /\ writtenN'[c] = writtenN[c]
               /\ store' # store => \E d \in Conns \ {c} : pc[d] = "locked"]_vars

\* An empty Array has been decoded after an answered request that stored something.
C22_Witness ==
    /\ pc["c1"] = "panicked"
    /\ req["c1"] = Some(Array(<<>>))
    /\ writtenN["c1"] >= 1 /\ decodedN["c1"] = writtenN["c1"] + 1
    /\ store # <<>>

(***************************************************************************)
(* The parser on raw buffers, as the cases of test_parse in resp.rs drive  *)
(* it: a buffer is filled with bytes, and from_bytes is called on it until *)
(* it fails or the buffer is empty.                                        *)
(***************************************************************************)

\* The bytes of a value on the wire, as a client writes them: serialize for every value
\* but an Array, and for an Array the count line followed by the elements.
RECURSIVE encode(_)
RECURSIVE encode_all(_)
encode(v) ==
    IF v.t = "Array"
    THEN <<"*">> \o format_decimal(Len(v.a)) \o <<CR, LF>> \o encode_all(v.a)
    ELSE serialize(v).v
encode_all(vs) == IF vs = <<>> THEN <<>> ELSE encode(vs[1]) \o encode_all(Tail(vs))

\* Texts of simple strings and simple errors: no CR LF pair inside.
LineTexts == {s \in Texts : ~has_crlf(s)}

\* Values without elements that from_bytes has an arm for.
FlatValues ==
    {SimpleString(s) : s \in LineTexts} \cup {SimpleError(s) : s \in LineTexts}
    \cup {BulkString(Some(s)) : s \in Texts} \cup {BulkError(s) : s \in Texts}
    \cup {Integer(n) : n \in (0 - MaxInt)..MaxInt}

\* Arrays: empty, of one value, of several values of different kinds, and nested.
ArrayValues ==
    {Array(<<>>),
     Array(<<SimpleString(<<"a">>)>>),
     Array(<<BulkString(Some(<<"a">>)), BulkString(Some(<<CR, LF>>))>>),
     Array(<<Integer(1), SimpleError(<<"a">>), BulkError(<<>>)>>),
     Array(<<Array(<<>>), Array(<<Integer(0 - 1)>>)>>)}

ParseValues == FlatValues \cup ArrayValues

\* What follows the first value in the buffer: nothing, another value, or bytes that
\* are no value.
NextValues ==
    {SimpleString(<<"a">>), BulkString(Some(<<CR, LF>>)), Integer(0 - 1),
     Array(<<SimpleString(<<>>)>>)}
FurtherBytes == {<<>>, <<"?">>, <<CR, LF>>, <<"+", "a">>} \cup {encode(v) : v \in NextValues}

FramedBuffers == {encode(v) \o rest : v \in ParseValues, rest \in FurtherBytes}

\* Malformed frames, each built to have one defect.
LineTags == {"+", "-", ":"}
BulkTags == {"$", "!"}
NotTags == {"?", "a", CR, "0"}
UnknownTagBuffers ==
    {<<b>> \o rest : b \in NotTags, rest \in {<<>>, <<CR, LF>>, <<"a", CR, LF>>}}
NotDecimal == {<<>>, <<"x">>, <<"1", "a">>, <<"-">>, <<"+">>, <<"1", " ">>}
BadLengthBuffers ==
    {<<t>> \o h \o <<CR, LF, "a", CR, LF>> : t \in BulkTags, h \in NotDecimal}
ShortBuffers ==
    UNION {{<<t>> \o format_decimal(n) \o <<CR, LF>> \o s :
                t \in BulkTags, s \in {x \in Texts \cup {<<"a", CR, LF>>} : Len(x) < n}} :
           n \in 1..(MaxTextLen + 2)}
NotCrlf == {<<>>, <<CR>>, <<LF>>, <<"a", "b">>, <<LF, CR>>, <<CR, "a">>, <<"a", CR, LF>>}
UnterminatedBuffers ==
    {<<t>> \o format_decimal(Len(s)) \o <<CR, LF>> \o s \o q :
        t \in BulkTags, s \in Texts, q \in NotCrlf}
NoLineEndBuffers ==
    {<<t>> \o s : t \in LineTags \cup BulkTags \cup {"*"},
                  s \in LineTexts \cup {<<"1">>, <<"1", CR>>}}

\* Arrays whose count is more than the values that follow, or with an element that
\* does not parse.
BadArrayBuffers ==
    {<<"*", "2", CR, LF>> \o encode(SimpleString(<<"a">>)),
     <<"*", "1", CR, LF>>,
     <<"*", "2", CR, LF>> \o encode(Integer(1)) \o <<"?", CR, LF>>,
     <<"*", "2", CR, LF, "$", "4", CR, LF, "a", CR, LF>> \o encode(Integer(1)),
     <<"*", "1", CR, LF, "*", "1", CR, LF>>,
     <<"*", "2", CR, LF, "+", "a", CR, LF, "+", "b">>,
     <<"*", "-", "1", CR, LF>> \o encode(Integer(1)),
     <<"*", "x", CR, LF>> \o encode(Integer(1))}

\* Bodies of an integer line: signs, zeros, no digits, and magnitudes around the ends
\* of the signed 64-bit range.
Signs == {<<>>, <<"+">>, <<"-">>}
DigitTexts == {<<"0">>, <<"7">>, <<"1", "2">>, <<"0", "0", "7">>, format_decimal(MaxInt)}
BadNumTexts ==
    {<<>>, <<"+">>, <<"-">>, <<"a">>, <<"1", "a">>, <<"-", "-", "1">>, <<"+", "-", "1">>,
     <<"1", "-">>, <<" ", "1">>, <<"1", ".", "0">>}
I64MinMinusOne ==
    <<"9","2","2","3","3","7","2","0","3","6","8","5","4","7","7","5","8","0","9">>
TwentyDigits == I64MaxText \o <<"0">>
OutOfRangeTexts ==
    {I64MinText, <<"+">> \o I64MinText, <<"-">> \o I64MinMinusOne,
     TwentyDigits, <<"-">> \o TwentyDigits, <<"0">> \o I64MinText}
GoodNumTexts == {sg \o d : sg \in Signs, d \in DigitTexts}
IntegerBuffers ==
    {<<":">> \o s \o <<CR, LF>> : s \in GoodNumTexts \cup BadNumTexts \cup OutOfRangeTexts}

WireBuffers ==
    FramedBuffers \cup {<<>>} \cup UnknownTagBuffers \cup BadLengthBuffers
    \cup ShortBuffers \cup UnterminatedBuffers \cup NoLineEndBuffers
    \cup BadArrayBuffers \cup IntegerBuffers

\* The buffer receives the bytes.
WireFeed(bytes) ==
    /\ codec = None
    /\ codec' = Some([stage |-> "fed", fed |-> bytes, buf |-> bytes, out |-> <<>>])
    /\ UNCHANGED <<store, now, holders, pc, req, parsed, reply, obs, decodedN, writtenN, rx, handler_buffer>>

\* One call of from_bytes on the buffer; out collects the results, and the calls stop
\* at a failure or an empty buffer.
WireParse ==
    /\ codec # None /\ codec[1].stage = "fed"
    /\ IF codec[1].out = <<>> THEN TRUE
       ELSE codec[1].out[Len(codec[1].out)].ok /\ codec[1].buf # <<>>
    /\ LET r == from_bytes(codec[1].buf)
       IN  codec' = Some([codec[1] EXCEPT !.buf = r.buf, !.out = Append(@, r)])
    /\ UNCHANGED <<store, now, holders, pc, req, parsed, reply, obs, decodedN, writtenN, rx, handler_buffer>>

NextWire ==
    \/ \E bytes \in WireBuffers : WireFeed(bytes)
    \/ WireParse

SpecWire == Init /\ [][NextWire]_vars

C24_MalformedFrameFails ==
    (/\ codec # None /\ codec[1].stage = "fed"
     /\ codec[1].fed \in {<<>>} \cup UnknownTagBuffers \cup BadLengthBuffers
                         \cup ShortBuffers \cup UnterminatedBuffers \cup NoLineEndBuffers
     /\ codec[1].out # <<>>) =>
        /\ Len(codec[1].out) = 1
        /\ ~codec[1].out[1].ok
        /\ "v" \notin DOMAIN codec[1].out[1]

\* A bulk error whose payload is followed by CR without LF was refused.
C24_Witness ==
    /\ codec # None /\ codec[1].stage = "fed"
    /\ codec[1].fed = <<"!", "1", CR, LF, "a", CR>>
    /\ Len(codec[1].out) = 1
    /\ codec[1].out[1] = Failed("Expected CRLF.", <<CR>>)

\* C25: parsing an Array reads the count header and then exactly that many values, in
\* order, into the result, leaving what follows them in the buffer; a count of 0 gives
\* the empty Array; when an element fails to parse, or fewer elements than the count
\* are in the buffer, the parse fails and returns no Array, not even a partial one.
C25_ArrayAllOrNothing ==
    (codec # None /\ codec[1].stage = "fed" /\ codec[1].out # <<>>) =>
        /\ \A v \in ArrayValues : \A rest \in FurtherBytes :
               codec[1].fed = <<"*">> \o format_decimal(Len(v.a)) \o <<CR, LF>>
                                  \o encode_all(v.a) \o rest =>
                   /\ codec[1].out[1].ok
                   /\ codec[1].out[1].v.t = "Array"
                   /\ Len(codec[1].out[1].v.a) = Len(v.a)
                   /\ \A i \in 1..Len(v.a) : codec[1].out[1].v.a[i] = v.a[i]
                   /\ codec[1].out[1].buf = rest
        /\ codec[1].fed \in {<<"*", "0", CR, LF>> \o rest : rest \in FurtherBytes} =>
               codec[1].out[1].ok /\ codec[1].out[1].v = Array(<<>>)
        /\ codec[1].fed \in BadArrayBuffers =>
               /\ ~codec[1].out[1].ok
               /\ "v" \notin DOMAIN codec[1].out[1]
               /\ Len(codec[1].out) = 1

\* An array of two whose second element has an unknown tag: the first element had been
\* parsed, and the parse failed.
C25_Witness ==
    /\ codec # None /\ codec[1].stage = "fed"
    /\ codec[1].fed = <<"*", "2", CR, LF, ":", "1", CR, LF, "?", CR, LF>>
    /\ codec[1].out = <<Failed("Message did not match expected length", <<CR, LF>>)>>

\* C26: integer parsing accepts an optional leading '+' or '-' followed by decimal
\* digits and returns that signed value; an empty body, a sign alone, a character that
\* is no digit, and a magnitude outside the signed 64-bit range are failures, never a
\* value.  The magnitudes of i64::MAX and i64::MIN themselves are within the range.
C26_IntegerParsing ==
    /\ ~exceeds(I64MaxText, I64MaxText) /\ ~exceeds(I64MinText, I64MinText)
    /\ exceeds(I64MinText, I64MaxText) /\ exceeds(I64MinMinusOne, I64MinText)
    /\ (codec # None /\ codec[1].stage = "fed" /\ codec[1].out # <<>>) =>
           LET Expected == {<<<<"0">>, 0>>, <<<<"7">>, 7>>, <<<<"1", "2">>, 12>>,
                            <<<<"0", "0", "7">>, 7>>, <<format_decimal(MaxInt), MaxInt>>}
               line(s) == <<":">> \o s \o <<CR, LF>>
           IN  /\ \A e \in Expected :
                      /\ codec[1].fed \in {line(e[1]), line(<<"+">> \o e[1])} =>
                             codec[1].out[1] = Parsed(Integer(e[2]), <<>>)
                      /\ codec[1].fed = line(<<"-">> \o e[1]) =>
                             codec[1].out[1] = Parsed(Integer(0 - e[2]), <<>>)
               /\ codec[1].fed \in {line(s) : s \in BadNumTexts \cup OutOfRangeTexts} =>
                      /\ ~codec[1].out[1].ok
                      /\ "v" \notin DOMAIN codec[1].out[1]

\* The text of i64::MIN - 1 was refused.
C26_Witness ==
    /\ codec # None /\ codec[1].stage = "fed"
    /\ codec[1].fed = <<":", "-">> \o I64MinMinusOne \o <<CR, LF>>
    /\ codec[1].out = <<Failed("Failed to parse number.", <<>>)>>

\* C27: bulk strings and bulk errors are delimited by their length header only:
\* serialize writes the exact byte length of the payload, and a payload that holds
\* CR LF is parsed back whole; the parser takes exactly the declared number of bytes
\* and then requires CR LF, whatever the payload ends with.
C27_BulkDelimitedByLength ==
    LET bulk(t, s) == IF t = "$" THEN BulkString(Some(s)) ELSE BulkError(s)
        wire(t, s) == <<t, DigitChars[Len(s) + 1], CR, LF>> \o s \o <<CR, LF>>
    IN  /\ \A t \in BulkTags : \A s \in Texts : serialize(bulk(t, s)) = Ok(wire(t, s))
        /\ (codec # None /\ codec[1].stage = "fed" /\ codec[1].out # <<>>) =>
               /\ \A t \in BulkTags : \A s \in Texts : \A rest \in FurtherBytes :
                      codec[1].fed = wire(t, s) \o rest =>
                          codec[1].out[1] = Parsed(bulk(t, s), rest)
               /\ codec[1].fed \in UnterminatedBuffers => ~codec[1].out[1].ok

\* A bulk error whose payload is CR LF, followed by bytes that are no value: the
\* payload came back whole.
C27_Witness ==
    /\ codec # None /\ codec[1].stage = "fed"
    /\ codec[1].fed = <<"!", "2", CR, LF, CR, LF, CR, LF, "+", "a">>
    /\ codec[1].out = <<Parsed(BulkError(<<CR, LF>>), <<"+", "a">>)>>

C29_InsertReturnsLivePrevious ==
    [][\A c \in Conns :
        ExecStep(c, "SET") =>
            LET k == parsed[c][1].key
            IN  /\ k \in DOMAIN store'
                /\ store'[k] = parsed[c][1].entry[1]
                /\ DOMAIN store' = DOMAIN store \cup {k}
                /\ \A j \in DOMAIN store \ {k} : store'[j] = store[j]
                /\ obs'[c][1].ret =
                       IF k \in DOMAIN store /\ Live(store[k], now)
                       THEN Some(store[k]) ELSE None]_vars

\* An insert over an entry that had expired returned nothing, and the new entry is at
\* the key.
C29_Witness ==
    \E c \in Conns :
        /\ pc[c] = "write" /\ parsed[c] # None /\ parsed[c][1].cmd = "SET"
        /\ obs[c][1].raw # None /\ ~Live(obs[c][1].raw[1], obs[c][1].at)
        /\ obs[c][1].ret = None
        /\ store[parsed[c][1].key] = parsed[c][1].entry[1]

(***************************************************************************)
(* The connection loop on a byte stream: a socket read delivers whatever   *)
(* part of the client's bytes has arrived, read_stream appends it to the   *)
(* handler's buffer and calls from_bytes once.                             *)
(***************************************************************************)

\* String::from_utf8 in the parsers: the text of a payload, for the tokens of the
\* frames below; the parsed message with its payloads as texts.
from_utf8(bytes) ==
    CASE bytes = <<"P", "I", "N", "G">> -> "PING"
      [] bytes = <<"G", "E", "T">> -> "GET"
      [] bytes = <<"k", "1">> -> "k1"
      [] OTHER -> "?"

RECURSIVE message_text(_)
message_text(v) ==
    CASE v.t = "Array" -> Array([i \in 1..Len(v.a) |-> message_text(v.a[i])])
      [] v.t = "BulkString" -> BulkString(Some(from_utf8(v.o[1])))
      [] v.t \in {"SimpleString", "SimpleError", "BulkError"} -> [v EXCEPT !.s = from_utf8(@)]
      [] OTHER -> v

\* The frames of PING and of GET k1 as a client writes them.
PingFrame == <<"*", "1", CR, LF, "$", "4", CR, LF, "P", "I", "N", "G", CR, LF>>
GetFrame ==
    <<"*", "2", CR, LF, "$", "3", CR, LF, "G", "E", "T", CR, LF,
      "$", "2", CR, LF, "k", "1", CR, LF>>
StreamFrames == {PingFrame, GetFrame}

\* The first reads of a frame split in two: every proper prefix that is not empty.
FirstParts == {SubSeq(f, 1, n) : f \in StreamFrames, n \in 1..(Len(PingFrame) - 1)}
\* The second reads: what remains of the frame.
SecondParts ==
    {SubSeq(f, n + 1, Len(f)) : f \in StreamFrames, n \in 1..(Len(PingFrame) - 1)}
\* A whole frame with the first part of the next one behind it, and two whole frames.
FrameAndFirstParts == {PingFrame \o SubSeq(GetFrame, 1, n) : n \in {1, 4, 11}}
FramePairs == {PingFrame \o GetFrame, GetFrame \o PingFrame}

StreamReads ==
    StreamFrames \cup FirstParts \cup SecondParts \cup FrameAndFirstParts \cup FramePairs

\* One pass of run's loop head: the socket read returns bytes, read_stream parses the
\* buffer once, and the loop body starts or the loop ends.
StreamRead(c, bytes, budget) ==
    /\ at_loop_top(c)
    /\ decodedN[c] < budget
    /\ rx' = [rx EXCEPT ![c] = Some(bytes)]
    /\ LET r == read_stream(handler_buffer[c], bytes)
       IN  /\ handler_buffer' = [handler_buffer EXCEPT ![c] = r.buf]
           /\ IF run_continues(r.ret)
              THEN HandlerDispatch(c, message_text(r.ret.v[1]))
              ELSE /\ pc' = [pc EXCEPT ![c] = "closed"]
                   /\ UNCHANGED <<store, now, holders, req, parsed, reply, obs, decodedN,
                                  writtenN, codec>>

NextStream ==
    \/ Accept("c1")
    \/ \E bytes \in StreamReads : StreamRead("c1", bytes, MaxReqs)
    \/ Acquire("c1")
    \/ HandlerExec("c1")
    \/ Write("c1")

SpecStream == Init /\ [][NextStream]_vars

SpecStreamFair ==
    /\ Init /\ [][NextStream]_vars
    /\ WF_vars(Acquire("c1")) /\ WF_vars(HandlerExec("c1")) /\ WF_vars(Write("c1"))

\* C31: every complete request the handler has received is eventually dispatched while
\* the connection stays open, without the peer sending further bytes: a complete
\* request in the handler's buffer leads to one more request decoded, or to the end of
\* the connection.
C31_BufferedRequestAnswered ==
    \A n \in 0..(MaxReqs - 1) :
        (from_bytes(handler_buffer["c1"]).ok /\ decodedN["c1"] = n)
            ~> (decodedN["c1"] > n \/ pc["c1"] \in {"closed", "panicked"})

(***************************************************************************)
(* RPUSH from two connections on one key, with list.extend taken value by  *)
(* value: the guard is held from lock().await to the return of handle.     *)
(***************************************************************************)
PushRequests == {Request(<<"RPUSH", "k1", "a", "b">>)}

\* One value of list.extend(values) in Rpush::handle, the guard held; after the last
\* value, or on the WRONGTYPE return, handle returns and the guard is dropped.
PushStep(c) ==
    /\ pc[c] = "locked"
    /\ LET p == parsed[c][1]
           r == Rpush_locked(store, p.key, <<p.values[1]>>, now)
       IN  /\ store' = r.store
           /\ IF r.reply.t = "Integer" /\ Len(p.values) > 1
              THEN /\ parsed' = [parsed EXCEPT ![c] = Some([p EXCEPT !.values = Tail(@)])]
                   /\ UNCHANGED <<pc, reply, holders>>
              ELSE /\ reply' = [reply EXCEPT ![c] = Some(r.reply)]
                   /\ pc' = [pc EXCEPT ![c] = "write"]
                   /\ holders' = drop_guard(c)
                   /\ UNCHANGED parsed
    /\ UNCHANGED <<now, req, obs, decodedN, writtenN, codec, rx, handler_buffer>>

NextPush ==
    \/ \E c \in Conns : Accept(c)
    \/ \E c \in Conns : \E m \in PushRequests : Read(c, m, MaxSharedReqs)
    \/ \E c \in Conns : Acquire(c)
    \/ \E c \in Conns : PushStep(c)
    \/ \E c \in Conns : Write(c)

SpecPush == Init /\ [][NextPush]_vars

\* C32: when two connections run RPUSH a b on the same key concurrently, the values of
\* each call are contiguous and in argument order in the list: the list is a row of
\* whole a b pairs, with a lone a at its tail only while the one call that holds the
\* guard is between its two values; the lengths returned are those of a serial order of
\* the calls (of two calls answered at the same time the later one returned the length
\* of the list, at least its own values above what the earlier one returned, and the
\* first calls of the two connections returned 2 and 4); and the length of the list is
\* the number of values pushed by the calls that have returned.
C32_ConcurrentRpushSerial ==
    LET list == IF "k1" \in DOMAIN store THEN store["k1"].value.l ELSE <<>>
        midway == {c \in Conns : pc[c] = "locked" /\ parsed[c][1].values = <<"b">>}
        returned(c) == decodedN[c] - (IF pc[c] \in {"lock", "locked"} THEN 1 ELSE 0)
        whole == 2 * (returned("c1") + returned("c2"))
    IN  /\ \A i \in 1..Len(list) : list[i] = (IF i % 2 = 1 THEN "a" ELSE "b")
        /\ Len(list) = whole + (IF midway = {} THEN 0 ELSE 1)
        /\ \A c, d \in midway : c = d
        /\ \A c \in Conns : pc[c] = "write" =>
               /\ reply[c][1].t = "Integer"
               /\ reply[c][1].n % 2 = 0 /\ reply[c][1].n >= 2 /\ reply[c][1].n <= whole
        /\ (pc["c1"] = "write" /\ pc["c2"] = "write") =>
               \E c \in Conns : \E d \in Conns \ {c} :
                   /\ reply[d][1].n >= reply[c][1].n + 2
                   /\ reply[d][1].n = Len(list)
                   /\ (decodedN[c] = 1 /\ decodedN[d] = 1) =>
                          (reply[c][1].n = 2 /\ reply[d][1].n = 4)

\* Both connections have their RPUSH answered at the same time, 2 and 4, and the list
\* holds the four values.
C32_Witness ==
    /\ pc["c1"] = "write" /\ pc["c2"] = "write"
    /\ reply["c2"] = Some(Integer(2)) /\ reply["c1"] = Some(Integer(4))
    /\ store["k1"].value.l = <<"a", "b", "a", "b">>

BuiltEntries ==
    LET plain == {new_list, new_string("a")}
    IN  plain \cup {with_deletion(e, d, now) : e \in plain, d \in 1..(MaxTime - 1)}

\* store.insert(key, entry) by the owner of the store before the connection is served.
StoreInsert(key, e) ==
    /\ pc["c1"] = "none"
    /\ store = <<>>
    /\ store' = store_insert(store, key, e, now).store
    /\ UNCHANGED <<now, holders, pc, req, parsed, reply, obs, decodedN, writtenN, codec, rx, handler_buffer>>

StoreRequests ==
    {Request(<<"RPUSH", "k1", "a">>), Request(<<"RPUSH", "k1", "a", "b">>),
     Request(<<"GET", "k1">>)}

NextStore ==
    \/ Tick
    \/ \E e \in BuiltEntries : StoreInsert("k1", e)
    \/ Accept("c1")
    \/ \E m \in StoreRequests : Read("c1", m, MaxReqs)
    \/ Acquire("c1")
    \/ Exec("c1")
    \/ Write("c1")

SpecStore == Init /\ [][NextStore]_vars

\* C34: RPUSH on a key whose entry has expired behaves as on an absent key: the
\* expired entry, String or List, is evicted, the key then holds a fresh List with no
\* deletion time and exactly the pushed values, and the reply is Integer(number of
\* pushed values), never WRONGTYPE.
C34_RpushOnExpiredIsFresh ==
    [][\A c \in Conns :
        LET k == parsed[c][1].key
        IN  (ExecStep(c, "RPUSH") /\ k \in DOMAIN store /\ ~Live(store[k], now)) =>
                /\ obs'[c][1].ret = None
                /\ map_get(store', k) =
                       Some([value |-> EntryList(parsed[c][1].values), deletion_time |-> None])
                /\ reply'[c] = Some(Integer(Len(parsed[c][1].values)))
                /\ \A k2 \in DOMAIN store \ {k} : map_get(store', k2) = map_get(store, k2)]_vars

\* C34 witness: an RPUSH of two values has run on a key holding an expired List that
\* had values of its own, and has answered 2.
C34_Witness ==
    /\ pc["c1"] = "write" /\ parsed["c1"] # None /\ parsed["c1"][1].cmd = "RPUSH"
    /\ obs["c1"] # None /\ obs["c1"][1].raw # None
    /\ obs["c1"][1].raw[1].value = EntryList(<<"a">>)
    /\ ~Live(obs["c1"][1].raw[1], obs["c1"][1].at)
    /\ store["k1"] = [value |-> EntryList(<<"a", "b">>), deletion_time |-> None]
    /\ reply["c1"] = Some(Integer(2))


\* C38: a successful RPUSH changes only the list contents of the entry: the deletion
\* time of an existing live List stays as it was, neither cleared nor extended, and a
\* List created by RPUSH has no deletion time.
C38_RpushKeepsDeletionTime ==
    [][\A c \in Conns :
        LET k == parsed[c][1].key
        IN  (ExecStep(c, "RPUSH") /\ reply'[c][1].t = "Integer") =>
                /\ k \in DOMAIN store'
                /\ store'[k].value.t = "List"
                /\ IF k \in DOMAIN store /\ Live(store[k], now)
                   THEN /\ store[k].value.t = "List"
                        /\ store'[k].deletion_time = store[k].deletion_time
                        /\ store'[k] = [store[k] EXCEPT !.value = store'[k].value]
                   ELSE store'[k].deletion_time = None
                /\ now' = now]_vars

\* C38 witness: an RPUSH has appended to a live List that carries a deletion time, at
\* a time after the entry was made, and the entry still carries that deletion time.
C38_Witness ==
    /\ pc["c1"] = "write" /\ parsed["c1"] # None /\ parsed["c1"][1].cmd = "RPUSH"
    /\ obs["c1"] # None /\ obs["c1"][1].raw # None
    /\ obs["c1"][1].raw[1].value = EntryList(<<"a">>)
    /\ obs["c1"][1].raw[1].deletion_time = Some(2)
    /\ obs["c1"][1].at = 1
    /\ store["k1"] = [value |-> EntryList(<<"a", "a", "b">>), deletion_time |-> Some(2)]
    /\ reply["c1"] = Some(Integer(3))


\* C35: every reply handed to the Writing step, for any request, is a value serialize
\* encodes, never an Array, so the Writing step never ends in serialize's panic.
C35_RepliesSerialize ==
    \A c \in Conns : pc[c] = "write" => serializes(reply[c][1])


PxRequests ==
    {Request(<<"SET", "k1", "a", "PX", "2", "PX", "1">>),
     Request(<<"SET", "k1", "a", "px", "1", "PX", "2">>),
     Request(<<"SET", "k1", "a", "PX", "1", "PX", "x">>),
     Request(<<"SET", "k1", "a", "PX", "1", "PX">>),
     Request(<<"SET", "k1", "a", "PX", "2", "EX", "1">>),
     Request(<<"SET", "k1", "a", "PX", "x", "PX", "1">>),
     Request(<<"SET", "k1", "b">>),
     Request(<<"GET", "k1">>)}

NextPx ==
    \/ Tick
    \/ Accept("c1")
    \/ \E m \in PxRequests : Read("c1", m, MaxReqs)
    \/ Acquire("c1")
    \/ Exec("c1")
    \/ Write("c1")

SpecPx == Init /\ [][NextPx]_vars

\* C37: when SET is given several PX pairs, all pairs are validated before the store
\* is touched, and the deletion time of the stored entry is the one computed from the
\* last pair; an invalid pair after valid ones makes the whole SET fail with the store
\* unchanged.
C37_LastPxPairWins ==
    [][\A c \in Conns :
        LET m == req'[c][1]
            pairs == {i \in 4..Len(m.a) : i % 2 = 0}
            valid == /\ Len(m.a) % 2 = 1
                     /\ \A i \in pairs :
                            /\ m.a[i].o[1] \in {"PX", "px"}
                            /\ m.a[i + 1].o[1] \in {"0", "1", "2"}
            ms == [d \in {"0", "1", "2"} |-> CASE d = "0" -> 0 [] d = "1" -> 1 [] d = "2" -> 2]
        IN  /\ (ReadStep(c) /\ m.a[1].o[1] = "SET" /\ Len(m.a) > 5) =>
                   /\ store' = store
                   /\ IF valid
                      THEN /\ pc'[c] = "lock"
                           /\ parsed'[c][1].entry =
                                  Some([value |-> EntryString(m.a[3].o[1]),
                                        deletion_time |-> Some(now + ms[m.a[Len(m.a)].o[1]])])
                      ELSE /\ pc'[c] = "write"
                           /\ parsed'[c] = None
                           /\ reply'[c][1].t = "BulkError"
            /\ (ExecStep(c, "SET") /\ Len(req[c][1].a) > 5) =>
                   /\ req'[c] = req[c]
                   /\ store'[parsed[c][1].key] = parsed[c][1].entry[1]
            /\ (store' # store) => \E d \in Conns : pc[d] = "locked"]_vars

\* C37 witness: SET k1 a PX 2 PX 1 was read at time 1 and has stored an entry that
\* is deleted at time 2, not 3, over an entry that held "b".
C37_Witness ==
    /\ pc["c1"] = "write"
    /\ req["c1"] = Some(Request(<<"SET", "k1", "a", "PX", "2", "PX", "1">>))
    /\ obs["c1"] # None /\ obs["c1"][1].raw = Some(new_string("b"))
    /\ store["k1"] = [value |-> EntryString("a"), deletion_time |-> Some(2)]
    /\ reply["c1"] = Some(SimpleString("OK"))


\* ---------------------------------------------------------------------------
\* read_until_crlf called repeatedly on one buffer, as test_read_until_clrf does.
\* ---------------------------------------------------------------------------

\* Every buffer of up to MaxTextLen + 5 bytes made of CR, LF and a letter.
LineBuffers ==
    UNION {[1..n -> {CR, LF, "a"}] : n \in 0..(MaxTextLen + 5)}

LineFeed(bytes) ==
    /\ codec = None
    /\ codec' = Some([stage |-> "lines", fed |-> bytes, buf |-> bytes, out |-> <<>>])
    /\ UNCHANGED <<store, now, holders, pc, req, parsed, reply, obs, decodedN, writtenN, rx, handler_buffer>>

\* One call of read_until_crlf; the loop ends with the call that returns None.
LineRead ==
    /\ codec # None /\ codec[1].stage = "lines"
    /\ LET r == read_until_crlf(codec[1].buf)
       IN  codec' = Some([codec[1] EXCEPT
                             !.buf = r.buf,
                             !.out = IF r.ret = None THEN @ ELSE Append(@, r.ret[1]),
                             !.stage = IF r.ret = None THEN "done" ELSE @])
    /\ UNCHANGED <<store, now, holders, pc, req, parsed, reply, obs, decodedN, writtenN, rx, handler_buffer>>

NextLines ==
    \/ \E bytes \in LineBuffers : LineFeed(bytes)
    \/ LineRead

SpecLines == Init /\ [][NextLines]_vars

\* C39: read_until_crlf splits at the first CR-LF pair: it returns the bytes before
\* the pair and removes them and the pair from the buffer; when the buffer holds no
\* CR-LF pair it returns nothing and leaves the buffer unchanged, so repeated calls
\* yield the CRLF-terminated tokens in order and leave the unterminated tail.
C39_ReadUntilCrlfSplitsAtFirst ==
    [][(codec # None /\ codec[1].stage = "lines" /\ codec' # codec) =>
          LET b == codec[1].buf
              pair == \E i \in 2..Len(b) : b[i - 1] = CR /\ b[i] = LF
              out2 == codec'[1].out
          IN  /\ codec'[1].fed = codec[1].fed
              /\ IF pair
                 THEN /\ Len(out2) = Len(codec[1].out) + 1
                      /\ SubSeq(out2, 1, Len(out2) - 1) = codec[1].out
                      /\ LET tok == out2[Len(out2)]
                         IN  /\ b = tok \o <<CR, LF>> \o codec'[1].buf
                             /\ ~\E i \in 2..(Len(tok) + 1) : b[i - 1] = CR /\ b[i] = LF
                      /\ codec'[1].stage = "lines"
                 ELSE /\ out2 = codec[1].out
                      /\ codec'[1].buf = b
                      /\ codec'[1].stage = "done"]_vars

\* C39 witness: from the buffer "a" CR LF CR LF "a" CR the calls have returned the
\* tokens "a" and "" in that order, the last call has returned nothing, and the tail
\* "a" CR, which ends in a lone CR, is still in the buffer.
C39_Witness ==
    /\ codec # None /\ codec[1].stage = "done"
    /\ codec[1].fed = <<"a", CR, LF, CR, LF, "a", CR>>
    /\ codec[1].out = << <<"a">>, <<>> >>
    /\ codec[1].buf = <<"a", CR>>

====
